---- MODULE Spec2Model ----
(***************************************************************************)
(* Ensemble fusion and voting of ontology mappings (graph_mesh_aligner).   *)
(*                                                                         *)
(* fusion.py : Mapping, FusedMapping, fuse_mappings                        *)
(* voting.py : VotingConfig, VotingResult, apply_*_voting, vote,           *)
(*             calculate_matcher_agreement, suggest_matcher_weights        *)
(* quality.py: calculate_quality_metrics, identify_conflicts,              *)
(*             resolve_conflicts*, compare_with_reference                  *)
(*                                                                         *)
(* and the pipeline driver (graph_mesh_orchestrator):                      *)
(*                                                                         *)
(* pipeline.py: orchestrate, save_checkpoint, load_checkpoint              *)
(* models.py : PipelineState, SourceState, PipelineCheckpoint              *)
(*                                                                         *)
(* An exception a call raises is the status of its outcome.                *)
(*                                                                         *)
(* Python floats are modelled as exact rationals <<n, d>> in lowest terms  *)
(* with d > 0, so that equality of two numbers is equality of the tuples.  *)
(* Python lists are sequences, Python dicts are sequences of <<key, value>>*)
(* pairs in insertion order, and an Optional value is a sequence of length *)
(* 0 (None) or 1.                                                          *)
(***************************************************************************)
EXTENDS Integers, Sequences, FiniteSets, TLC

VARIABLES
    files,            \* fuse_mappings: the loaded mapping_files, in dict order
    min_confidence,   \* fuse_mappings: the min_confidence argument of the last call
    fused,            \* the list returned by the last fuse_mappings call
    config,           \* the caller's VotingConfig object
    total_matchers,   \* vote: the total_matchers argument of the last call
    result,           \* the outcome of the last vote call
    pc,               \* "input" | "fused" | "configured" | "voted" | "called"
    reference,        \* the reference_mappings argument (None or a list)
    resolution_strategy,  \* resolve_conflicts: the strategy argument of the last call
    report,           \* the outcome of the last resolve_conflicts call
    comparison,       \* the outcome of the last compare_with_reference call
    metrics,          \* the outcome of the last calculate_quality_metrics call
    agreement,        \* the outcome of the last calculate_matcher_agreement call
    suggested,        \* the outcome of the last suggest_matcher_weights call
    configs,          \* concurrent callers: the VotingConfig object of each caller
    calls,            \* concurrent callers: the call each caller is in, with its locals
    manifest,         \* orchestrate: the loaded PipelineManifest
    checkpoint,       \* orchestrate: the PipelineCheckpoint object of the run
    checkpoint_file,  \* orchestrate: the content of workdir/checkpoint.json
    at,               \* orchestrate: the statement the run is at
    locals,           \* orchestrate: fetched, converted, mappings and the loop position
    outcome,          \* orchestrate: what the last run returned or raised
    runs              \* orchestrate: the number of runs started

qualityVars == <<reference, resolution_strategy, report, comparison, metrics, agreement, suggested>>

concurrentVars == <<configs, calls>>

pipelineVars == <<manifest, checkpoint, checkpoint_file, at, locals, outcome, runs>>

driverVars == <<concurrentVars, pipelineVars>>

alignerVars == <<files, min_confidence, fused, config, total_matchers, result, pc>>

vars == <<alignerVars, qualityVars, driverVars>>

-----------------------------------------------------------------------------
(* Bounds of the model *)

MaxRaw == 3              \* raw Mapping records in the input of fuse_mappings
MaxTotalMatchers == 4    \* largest total_matchers handed to vote
MaxReference == 3        \* rows of a reference list

-----------------------------------------------------------------------------
(* Rational arithmetic standing for Python float arithmetic *)

Abs(i) == IF i < 0 THEN -i ELSE i

RECURSIVE GCD(_, _)
GCD(a, b) == IF b = 0 THEN a ELSE GCD(b, a % b)

R(n, d) ==
    LET g == GCD(Abs(n), Abs(d))
        s == IF d < 0 THEN -1 ELSE 1
    IN  <<(s * n) \div g, (s * d) \div g>>

RInt(i) == <<i, 1>>
RAdd(a, b) == R(a[1] * b[2] + b[1] * a[2], a[2] * b[2])
RMul(a, b) == R(a[1] * b[1], a[2] * b[2])
RDiv(a, b) == R(a[1] * b[2], a[2] * b[1])
RGe(a, b) == a[1] * b[2] >= b[1] * a[2]
RGt(a, b) == a[1] * b[2] > b[1] * a[2]
RMax(a, b) == IF RGt(b, a) THEN b ELSE a

\* int(x) of a float: truncation toward zero
IntOf(a) == IF a[1] >= 0 THEN a[1] \div a[2] ELSE -((-a[1]) \div a[2])

IntMax(a, b) == IF b > a THEN b ELSE a

-----------------------------------------------------------------------------
(* Python containers *)

None == <<>>
Some(v) == <<v>>

Range(s) == {s[i] : i \in 1..Len(s)}

\* dict: a sequence of <<key, value>> pairs with distinct keys, insertion order
DictKeys(d) == [i \in 1..Len(d) |-> d[i][1]]
DictValues(d) == [i \in 1..Len(d) |-> d[i][2]]
DictHas(d, k) == \E i \in 1..Len(d) : d[i][1] = k
DictGet(d, k, default) ==
    IF DictHas(d, k)
    THEN d[CHOOSE i \in 1..Len(d) : d[i][1] = k][2]
    ELSE default
DictSet(d, k, v) ==
    IF DictHas(d, k)
    THEN [i \in 1..Len(d) |-> IF d[i][1] = k THEN <<k, v>> ELSE d[i]]
    ELSE Append(d, <<k, v>>)

\* sum(xs) over a list of floats, left to right from 0
RECURSIVE SumSeq(_)
SumSeq(xs) ==
    IF xs = <<>> THEN RInt(0)
    ELSE RAdd(SumSeq(SubSeq(xs, 1, Len(xs) - 1)), xs[Len(xs)])

\* "sep".join(xs)
RECURSIVE Join(_, _)
Join(sep, xs) ==
    IF xs = <<>> THEN ""
    ELSE IF Len(xs) = 1 THEN xs[1]
    ELSE xs[1] \o sep \o Join(sep, Tail(xs))

\* [x for x in xs if x is not in an earlier position]: first-seen order
RECURSIVE FirstSeen(_)
FirstSeen(xs) ==
    IF xs = <<>> THEN <<>>
    ELSE LET init == FirstSeen(SubSeq(xs, 1, Len(xs) - 1))
             x == xs[Len(xs)]
         IN  IF x \in Range(init) THEN init ELSE Append(init, x)

RECURSIVE Concat(_)
Concat(ss) == IF ss = <<>> THEN <<>> ELSE Head(ss) \o Concat(Tail(ss))

-----------------------------------------------------------------------------
(* fusion.py *)

\* Mapping.get_key / FusedMapping.get_key
get_key(m) == <<m.subject_id, m.object_id, m.predicate_id>>

\* FusedMapping.support_count
support_count(m) == Len(m.supporting_matchers)

\* CollectStep without the "not in confidences" test before the append
CollectStep_AlwaysAppend(acc, mapping) ==
    LET name == mapping.matcher_name
    IN  [supporting_matchers |-> Append(acc.supporting_matchers, name),
         confidences |->
             DictSet(acc.confidences, name,
                     RMax(DictGet(acc.confidences, name, RInt(0)), mapping.confidence))]

\* CollectStep that keeps the matcher's latest confidence instead of its highest
CollectStep_KeepLast(acc, mapping) ==
    LET name == mapping.matcher_name
    IN  [supporting_matchers |->
             IF ~DictHas(acc.confidences, name)
             THEN Append(acc.supporting_matchers, name)
             ELSE acc.supporting_matchers,
         confidences |-> DictSet(acc.confidences, name, mapping.confidence)]

\* the body of "for mapping in mappings": one step on (confidences, supporting_matchers)
CollectStep(acc, mapping) ==
    LET name == mapping.matcher_name
    IN  [supporting_matchers |->
             IF ~DictHas(acc.confidences, name)
             THEN Append(acc.supporting_matchers, name)
             ELSE acc.supporting_matchers,
         confidences |->
             DictSet(acc.confidences, name,
                     RMax(DictGet(acc.confidences, name, RInt(0)), mapping.confidence))]

RECURSIVE Collect(_)
Collect(mappings) ==
    IF mappings = <<>>
    THEN [supporting_matchers |-> <<>>, confidences |-> <<>>]
    ELSE CollectStep(Collect(SubSeq(mappings, 1, Len(mappings) - 1)),
                     mappings[Len(mappings)])

\* sum(confidences.values()) / len(confidences)
consensus_of(confidences) ==
    RDiv(SumSeq(DictValues(confidences)), RInt(Len(confidences)))

Truthy(opt) == opt # None /\ opt[1] # ""

combined_justification(mappings) ==
    LET with == SelectSeq(mappings, LAMBDA m : Truthy(m.mapping_justification))
        justifications == [i \in 1..Len(with) |-> with[i].mapping_justification[1]]
    IN  IF justifications # <<>> THEN Some(Join("; ", justifications)) ELSE None

\* FuseGroup that averages over the raw records of the group
FuseGroup_MeanOfRaw(key, mappings) ==
    LET c == Collect(mappings)
    IN  [subject_id |-> key[1],
         object_id |-> key[2],
         predicate_id |-> key[3],
         confidences |-> c.confidences,
         supporting_matchers |-> c.supporting_matchers,
         consensus_confidence |->
             RDiv(SumSeq(DictValues(c.confidences)), RInt(Len(mappings))),
         mapping_justification |-> combined_justification(mappings)]

\* one iteration of "for key, mappings in mapping_groups.items()"
FuseGroup(key, mappings) ==
    LET c == Collect(mappings)
    IN  [subject_id |-> key[1],
         object_id |-> key[2],
         predicate_id |-> key[3],
         confidences |-> c.confidences,
         supporting_matchers |-> c.supporting_matchers,
         consensus_confidence |-> consensus_of(c.confidences),
         mapping_justification |-> combined_justification(mappings)]

\* Kept with a strict comparison
Kept_Strict(mappings, minc) == SelectSeq(mappings, LAMBDA m : RGt(m.confidence, minc))

\* the per-matcher filter "m.confidence >= min_confidence"
Kept(mappings, minc) == SelectSeq(mappings, LAMBDA m : RGe(m.confidence, minc))

\* all_mappings: the kept records of every matcher, in dict order
all_mappings(fs, minc) == Concat([i \in 1..Len(fs) |-> Kept(fs[i].mappings, minc)])

\* mapping_groups: a defaultdict(list) keyed by get_key, in first-seen order
GroupKeys(all) == FirstSeen([i \in 1..Len(all) |-> get_key(all[i])])
GroupOf(all, key) == SelectSeq(all, LAMBDA m : get_key(m) = key)

fuse_mappings(fs, minc) ==
    LET all == all_mappings(fs, minc)
        keys == GroupKeys(all)
    IN  [i \in 1..Len(keys) |-> FuseGroup(keys[i], GroupOf(all, keys[i]))]

-----------------------------------------------------------------------------
(* Inputs *)

MatcherNames == <<"A", "B", "matcher_0">>
Subjects == {"S1"}
Objects == {"O1", "O2"}
Predicates == {"skos:closeMatch"}
Confidences == {R(-1, 2), R(1, 2), R(1, 1)}
Justifications == {None}
MinConfidences == {RInt(0), R(1, 2), RInt(-1)}

\* load_sssom_mappings: the Mapping built for one row of matcher_name's file
Mapping(s, o, p, c, name, j) ==
    [subject_id |-> s, object_id |-> o, predicate_id |-> p, confidence |-> c,
     matcher_name |-> name, mapping_justification |-> j]

RawCount(fs) == Len(Concat([i \in 1..Len(fs) |-> fs[i].mappings]))

\* VotingConfig(): every field at its default
NoConfig ==
    [strategy |-> "majority", min_support_count |-> 2, min_support_ratio |-> R(1, 2),
     min_confidence |-> RInt(0), matcher_weights |-> None]

NoResult == [status |-> "none"]

\* nothing of quality.py has been called yet
QualityIdle ==
    /\ reference = None
    /\ resolution_strategy = "confidence"
    /\ report = NoResult
    /\ comparison = NoResult
    /\ metrics = NoResult
    /\ agreement = NoResult
    /\ suggested = NoResult

\* no caller is in a call, and orchestrate has not been called
DriverIdle ==
    /\ configs = <<>>
    /\ calls = <<>>
    /\ manifest = None
    /\ checkpoint = None
    /\ checkpoint_file = None
    /\ at = "idle"
    /\ locals = None
    /\ outcome = "none"
    /\ runs = 0

-----------------------------------------------------------------------------
(* Fusion: the caller builds mapping_files, reorders it, and fuses it *)

InitFusion ==
    /\ files = [i \in 1..Len(MatcherNames) |->
                   [matcher_name |-> MatcherNames[i], mappings |-> <<>>]]
    /\ min_confidence = RInt(0)
    /\ fused = <<>>
    /\ config = NoConfig
    /\ total_matchers = 0
    /\ result = NoResult
    /\ pc = "input"
    /\ QualityIdle
    /\ DriverIdle

\* one more row in matcher i's file
AddMapping ==
    /\ pc = "input"
    /\ RawCount(files) < MaxRaw
    /\ \E i \in 1..Len(files), s \in Subjects, o \in Objects, p \in Predicates,
          c \in Confidences, j \in Justifications :
          files' = [files EXCEPT ![i].mappings =
                       Append(@, Mapping(s, o, p, c, files[i].matcher_name, j))]
    /\ UNCHANGED <<min_confidence, fused, config, total_matchers, result, pc>>
    /\ UNCHANGED qualityVars
    /\ UNCHANGED driverVars

\* the caller passes the same matchers in another dict order
SwapMatchers ==
    /\ \E i \in 1..(Len(files) - 1) :
          files' = [files EXCEPT ![i] = files[i + 1], ![i + 1] = files[i]]
    /\ UNCHANGED <<min_confidence, fused, config, total_matchers, result, pc>>
    /\ UNCHANGED qualityVars
    /\ UNCHANGED driverVars

\* the rows of one matcher's file come in another order
SwapRecords ==
    /\ \E i \in 1..Len(files) : \E k \in 1..(Len(files[i].mappings) - 1) :
          /\ files[i].mappings[k] # files[i].mappings[k + 1]
          /\ files' = [files EXCEPT ![i].mappings =
                          [n \in 1..Len(@) |->
                              IF n = k THEN @[k + 1] ELSE IF n = k + 1 THEN @[k] ELSE @[n]]]
    /\ UNCHANGED <<min_confidence, fused, config, total_matchers, result, pc>>
    /\ UNCHANGED qualityVars
    /\ UNCHANGED driverVars

Fuse ==
    /\ pc = "input"
    /\ \E minc \in MinConfidences :
          /\ min_confidence' = minc
          /\ fused' = fuse_mappings(files, minc)
    /\ pc' = "fused"
    /\ UNCHANGED <<files, config, total_matchers, result>>
    /\ UNCHANGED qualityVars
    /\ UNCHANGED driverVars

NextFusion == AddMapping \/ SwapMatchers \/ SwapRecords \/ Fuse

SpecFusion == InitFusion /\ [][NextFusion]_vars

-----------------------------------------------------------------------------
(* voting.py *)

\* the values of the VotingStrategy enumeration
Strategies == {"majority", "unanimous", "weighted", "threshold", "confidence_weighted"}

\* a plain str given as config.strategy: it has no attribute "value"
PlainStrategies == {"'majority'"}

\* VotingConfig(strategy, min_support_count, min_support_ratio, min_confidence,
\*              matcher_weights)
VotingConfig(strategy, msc, msr, minc, weights) ==
    [strategy |-> strategy, min_support_count |-> msc, min_support_ratio |-> msr,
     min_confidence |-> minc, matcher_weights |-> weights]

\* apply_majority_voting with the threshold at exactly half
apply_majority_voting_Half(fm, tm) ==
    LET majority_threshold == RDiv(RInt(tm), RInt(2))
    IN  SelectSeq(fm, LAMBDA m : RGe(RInt(support_count(m)), majority_threshold))

apply_majority_voting(fm, tm) ==
    LET majority_threshold == RAdd(RDiv(RInt(tm), RInt(2)), R(1, 2))
    IN  SelectSeq(fm, LAMBDA m : RGe(RInt(support_count(m)), majority_threshold))

\* apply_unanimous_voting that accepts total_matchers supporters or more
apply_unanimous_voting_AtLeast(fm, tm) ==
    SelectSeq(fm, LAMBDA m : support_count(m) >= tm)

apply_unanimous_voting(fm, tm) ==
    SelectSeq(fm, LAMBDA m : support_count(m) = tm)

\* weighted_vote that gives a matcher without a weight the weight 1.0
weighted_vote_DefaultOne(m, matcher_weights) ==
    SumSeq([i \in 1..Len(m.supporting_matchers) |->
               DictGet(matcher_weights, m.supporting_matchers[i], RInt(1))])

\* sum(matcher_weights.get(matcher, 0.0) for matcher in supporting_matchers)
weighted_vote(m, matcher_weights) ==
    SumSeq([i \in 1..Len(m.supporting_matchers) |->
               DictGet(matcher_weights, m.supporting_matchers[i], RInt(0))])

apply_weighted_voting(fm, matcher_weights, threshold) ==
    SelectSeq(fm, LAMBDA m : RGe(weighted_vote(m, matcher_weights), threshold))

\* sum(matcher_weights.get(matcher, 0.0) * mapping.confidences.get(matcher, 0.0) ...)
weighted_confidence(m, matcher_weights) ==
    SumSeq([i \in 1..Len(m.supporting_matchers) |->
               RMul(DictGet(matcher_weights, m.supporting_matchers[i], RInt(0)),
                    DictGet(m.confidences, m.supporting_matchers[i], RInt(0)))])

apply_confidence_weighted_voting(fm, matcher_weights, threshold) ==
    SelectSeq(fm, LAMBDA m : RGe(weighted_confidence(m, matcher_weights), threshold))

\* ceil(x) of a float
CeilOf(a) == IF a[1] % a[2] = 0 THEN a[1] \div a[2] ELSE (a[1] \div a[2]) + 1

\* apply_threshold_voting that rounds the ratio's count up
apply_threshold_voting_Ceil(fm, msc, msr, tm) ==
    LET min_count_from_ratio == CeilOf(RMul(msr, RInt(tm)))
        effective_threshold == IntMax(msc, min_count_from_ratio)
    IN  SelectSeq(fm, LAMBDA m : support_count(m) >= effective_threshold)

apply_threshold_voting(fm, msc, msr, tm) ==
    LET min_count_from_ratio == IntOf(RMul(msr, RInt(tm)))
        effective_threshold == IntMax(msc, min_count_from_ratio)
    IN  SelectSeq(fm, LAMBDA m : support_count(m) >= effective_threshold)

\* default_weights keyed by the names of the matchers of the run
default_weights_Named(tm) ==
    [i \in 1..tm |->
        <<IF i <= Len(MatcherNames) THEN MatcherNames[i] ELSE "matcher_" \o ToString(i - 1),
          RDiv(RInt(1), RInt(tm))>>]

\* {f"matcher_{i}": 1.0 / total_matchers for i in range(total_matchers)}
default_weights(tm) ==
    [i \in 1..tm |-> <<"matcher_" \o ToString(i - 1), RDiv(RInt(1), RInt(tm))>>]

\* "not config.matcher_weights": None or an empty dict
NoWeights(cfg) == cfg.matcher_weights = None \/ cfg.matcher_weights[1] = <<>>

\* the pre-filter of vote
pre_filter(fm, cfg) ==
    IF RGt(cfg.min_confidence, RInt(0))
    THEN SelectSeq(fm, LAMBDA m : RGe(m.consensus_confidence, cfg.min_confidence))
    ELSE fm

\* the config object as vote leaves it: the weighted strategies store the
\* synthesized weights in it
config_after(cfg, tm) ==
    IF cfg.strategy \in {"weighted", "confidence_weighted"} /\ NoWeights(cfg)
    THEN [cfg EXCEPT !.matcher_weights = Some(default_weights(tm))]
    ELSE cfg

\* the strategy dispatch of vote, on the pre-filtered list
accepted_by(fm, cfg, tm) ==
    CASE cfg.strategy = "majority" -> apply_majority_voting(fm, tm)
      [] cfg.strategy = "unanimous" -> apply_unanimous_voting(fm, tm)
      [] cfg.strategy = "weighted" ->
            apply_weighted_voting(fm, config_after(cfg, tm).matcher_weights[1],
                                  cfg.min_support_ratio)
      [] cfg.strategy = "confidence_weighted" ->
            apply_confidence_weighted_voting(fm, config_after(cfg, tm).matcher_weights[1],
                                             cfg.min_support_ratio)
      [] cfg.strategy = "threshold" ->
            apply_threshold_voting(fm, cfg.min_support_count, cfg.min_support_ratio, tm)

\* rejected = [m for m in fused_mappings if m.get_key() not in accepted_keys]
rejected_of(fm, accepted) ==
    LET accepted_keys == {get_key(m) : m \in Range(accepted)}
    IN  SelectSeq(fm, LAMBDA m : get_key(m) \notin accepted_keys)

\* vote that takes the rejected records from the list before the pre-filter
vote_RejectUnfiltered(fm, cfg, tm) ==
    LET pre_filtered == pre_filter(fm, cfg)
    IN  IF cfg.strategy \in Strategies
        THEN LET accepted == accepted_by(pre_filtered, cfg, tm)
             IN  [config |-> config_after(cfg, tm),
                  result |-> [status |-> "VotingResult",
                              accepted_mappings |-> accepted,
                              rejected_mappings |-> rejected_of(fm, accepted),
                              total_matchers |-> tm,
                              voting_strategy |-> cfg.strategy]]
        ELSE [config |-> cfg, result |-> [status |-> "ValueError"]]

\* vote that falls back to majority voting on an unknown strategy
vote_FallbackMajority(fm, cfg, tm) ==
    LET pre_filtered == pre_filter(fm, cfg)
        accepted == IF cfg.strategy \in Strategies
                    THEN accepted_by(pre_filtered, cfg, tm)
                    ELSE apply_majority_voting(pre_filtered, tm)
    IN  [config |-> config_after(cfg, tm),
         result |-> [status |-> "VotingResult",
                     accepted_mappings |-> accepted,
                     rejected_mappings |-> rejected_of(pre_filtered, accepted),
                     total_matchers |-> tm,
                     voting_strategy |-> cfg.strategy]]

\* vote(fused_mappings, config, total_matchers): the VotingResult or the error
\* raised, and the config object as the call leaves it. The log line at the top
\* reads config.strategy.value, the final else raises ValueError.
vote(fm, cfg, tm) ==
    LET pre_filtered == pre_filter(fm, cfg)
    IN  IF cfg.strategy \in PlainStrategies
        THEN [config |-> cfg, result |-> [status |-> "AttributeError"]]
        ELSE IF cfg.strategy \in Strategies
        THEN LET accepted == accepted_by(pre_filtered, cfg, tm)
             IN  [config |-> config_after(cfg, tm),
                  result |-> [status |-> "VotingResult",
                              accepted_mappings |-> accepted,
                              rejected_mappings |-> rejected_of(pre_filtered, accepted),
                              total_matchers |-> tm,
                              voting_strategy |-> cfg.strategy]]
        ELSE [config |-> cfg, result |-> [status |-> "ValueError"]]

-----------------------------------------------------------------------------
(* Voting: a fused list, a VotingConfig the caller builds, and calls of vote *)

\* inputs of the voting runs: every matcher reports each key at most once
VoteConfidence(name) == IF name = "A" THEN R(1, 1) ELSE R(1, 2)
VoteKeys == <<<<"S1", "O1", "skos:closeMatch">>, <<"S1", "O2", "skos:closeMatch">>>>

VoteMappings(name, present) ==
    LET ks == SelectSeq(VoteKeys, LAMBDA k : k \in present)
    IN  [i \in 1..Len(ks) |->
            Mapping(ks[i][1], ks[i][2], ks[i][3], VoteConfidence(name), name, None)]

VoteFiles ==
    {[i \in 1..Len(MatcherNames) |->
         [matcher_name |-> MatcherNames[i],
          mappings |-> VoteMappings(MatcherNames[i], f[i])]] :
     f \in [1..Len(MatcherNames) -> SUBSET Range(VoteKeys)]}

\* what a caller may put in config.strategy: a member, a member of another
\* enumeration, or a plain str
StrategyValues == Strategies \cup {"consensus"} \cup PlainStrategies
SupportCounts == {1, 3}
SupportRatios == {RInt(0), R(1, 2), R(3, 5), RInt(1)}
VoteMinConfidences == {RInt(0), R(3, 4)}
MatcherWeights == {None, Some(<<>>), Some(<<<<"A", R(1, 2)>>, <<"B", R(1, 4)>>>>)}

InitVoting ==
    /\ files \in VoteFiles
    /\ min_confidence = RInt(0)
    /\ fused = <<>>
    /\ config = NoConfig
    /\ total_matchers = 0
    /\ result = NoResult
    /\ pc = "input"
    /\ QualityIdle
    /\ DriverIdle

\* fuse_mappings(mapping_files) with min_confidence at its default 0.0
FuseDefault ==
    /\ pc = "input"
    /\ min_confidence' = RInt(0)
    /\ fused' = fuse_mappings(files, RInt(0))
    /\ pc' = "fused"
    /\ UNCHANGED <<files, config, total_matchers, result>>
    /\ UNCHANGED qualityVars
    /\ UNCHANGED driverVars

\* the caller constructs the VotingConfig of the run
NewConfig ==
    /\ pc = "fused"
    /\ \E s \in StrategyValues, msc \in SupportCounts, msr \in SupportRatios,
          minc \in VoteMinConfidences, w \in MatcherWeights :
          config' = VotingConfig(s, msc, msr, minc, w)
    /\ pc' = "configured"
    /\ UNCHANGED <<files, min_confidence, fused, total_matchers, result>>
    /\ UNCHANGED qualityVars
    /\ UNCHANGED driverVars

\* vote(fused, config, tm), on the same config object as any earlier call
Vote ==
    /\ pc \in {"configured", "voted"}
    /\ \E tm \in 0..MaxTotalMatchers :
          LET v == vote(fused, config, tm)
          IN  /\ config' = v.config
              /\ result' = v.result
              /\ total_matchers' = tm
    /\ pc' = "voted"
    /\ UNCHANGED <<files, min_confidence, fused>>
    /\ UNCHANGED qualityVars
    /\ UNCHANGED driverVars

NextVoting == FuseDefault \/ NewConfig \/ Vote

SpecVoting == InitVoting /\ [][NextVoting]_vars

-----------------------------------------------------------------------------
(* quality.py: conflicts *)

\* the subject identifiers of the model as sorted() orders them
SortedSubjects == <<"S1", "S2">>

\* sorted(xs) for a collection of subject identifiers
sorted_subjects(S) == SelectSeq(SortedSubjects, LAMBDA x : x \in S)

\* the order of Python tuples of numbers: a > b
TupleGt(a, b) ==
    \E i \in 1..Len(a) : RGt(a[i], b[i]) /\ \A j \in 1..(i - 1) : a[j] = b[j]

\* max(xs, key=...) with keys[i] = key(xs[i]): the first element of greatest key
MaxFirst(xs, keys) ==
    xs[CHOOSE i \in 1..Len(xs) :
          /\ \A j \in 1..Len(xs) : ~TupleGt(keys[j], keys[i])
          /\ \A j \in 1..(i - 1) : TupleGt(keys[i], keys[j])]

\* sorted(xs, key=..., reverse=True) with keys[i] = key(xs[i]): descending and
\* stable, so an element comes after the elements of greater key and the
\* earlier ones of equal key
SortedReverse(xs, keys) ==
    LET before(i) == {j \in 1..Len(xs) :
                         \/ TupleGt(keys[j], keys[i])
                         \/ j < i /\ ~TupleGt(keys[i], keys[j])}
    IN  [n \in 1..Len(xs) |->
            xs[CHOOSE i \in 1..Len(xs) : Cardinality(before(i)) = n - 1]]

\* the defaultdict subject_id -> records, subjects in first-seen order
subject_to_mappings(fm) ==
    LET subjects == FirstSeen([i \in 1..Len(fm) |-> fm[i].subject_id])
    IN  [i \in 1..Len(subjects) |->
            <<subjects[i], SelectSeq(fm, LAMBDA m : m.subject_id = subjects[i])>>]

\* identify_conflicts that calls every subject with several records conflicting
identify_conflicts_SeveralRecords(fm) ==
    SelectSeq(subject_to_mappings(fm), LAMBDA e : Len(e[2]) > 1)

\* identify_conflicts(mappings): dict subject_id -> its records, for the
\* subjects with more than one distinct object_id
identify_conflicts(fm) ==
    SelectSeq(subject_to_mappings(fm),
              LAMBDA e : Cardinality({e[2][i].object_id : i \in 1..Len(e[2])}) > 1)

\* key=lambda m: m.consensus_confidence
confidence_key(m) == <<m.consensus_confidence>>

\* resolve_conflicts_by_confidence that keeps the first record of each group
resolve_conflicts_by_confidence_First(conflicts) ==
    [i \in 1..Len(conflicts) |-> conflicts[i][2][1]]

\* resolve_conflicts_by_confidence(conflicts)
resolve_conflicts_by_confidence(conflicts) ==
    [i \in 1..Len(conflicts) |->
        LET group == conflicts[i][2]
        IN  MaxFirst(group, [n \in 1..Len(group) |-> confidence_key(group[n])])]

\* key=lambda m: (m.support_count, m.consensus_confidence)
support_key(m) == <<RInt(support_count(m)), m.consensus_confidence>>

\* resolve_conflicts_by_support with the key (consensus_confidence, support_count)
resolve_conflicts_by_support_ConfidenceFirst(conflicts) ==
    [i \in 1..Len(conflicts) |->
        LET group == conflicts[i][2]
        IN  SortedReverse(group,
                          [n \in 1..Len(group) |->
                              <<group[n].consensus_confidence,
                                RInt(support_count(group[n]))>>])[1]]

\* resolve_conflicts_by_support(conflicts)
resolve_conflicts_by_support(conflicts) ==
    [i \in 1..Len(conflicts) |->
        LET group == conflicts[i][2]
        IN  SortedReverse(group, [n \in 1..Len(group) |-> support_key(group[n])])[1]]

\* predicate_rank.get(predicate_id, 0)
predicate_rank(p) ==
    IF p \in {"owl:equivalentClass", "skos:exactMatch"} THEN 3
    ELSE IF p = "skos:closeMatch" THEN 2
    ELSE IF p \in {"skos:relatedMatch", "skos:broadMatch", "skos:narrowMatch"} THEN 1
    ELSE 0

\* key=lambda m: (predicate_rank.get(m.predicate_id, 0), m.consensus_confidence)
specificity_key(m) == <<RInt(predicate_rank(m.predicate_id)), m.consensus_confidence>>

\* resolve_conflicts_by_specificity that keeps the two best records of a group
resolve_conflicts_by_specificity_TopTwo(conflicts) ==
    Concat([i \in 1..Len(conflicts) |->
               LET group == conflicts[i][2]
               IN  SubSeq(SortedReverse(group,
                                        [n \in 1..Len(group) |->
                                            specificity_key(group[n])]), 1, 2)])

\* resolve_conflicts_by_specificity(conflicts)
resolve_conflicts_by_specificity(conflicts) ==
    [i \in 1..Len(conflicts) |->
        LET group == conflicts[i][2]
        IN  SortedReverse(group,
                          [n \in 1..Len(group) |-> specificity_key(group[n])])[1]]

\* resolve_conflicts_keep_all(conflicts)
resolve_conflicts_keep_all(conflicts) ==
    Concat([i \in 1..Len(conflicts) |-> conflicts[i][2]])

\* the strategy dispatch of resolve_conflicts, with keep_all for an unknown one
resolved_by_UnknownKeepsAll(st, conflicts) ==
    IF st = "confidence" THEN resolve_conflicts_by_confidence(conflicts)
    ELSE IF st = "support" THEN resolve_conflicts_by_support(conflicts)
    ELSE IF st = "specificity" THEN resolve_conflicts_by_specificity(conflicts)
    ELSE resolve_conflicts_keep_all(conflicts)

\* the strategy dispatch of resolve_conflicts: an unknown strategy logs a
\* warning and resolves by confidence
resolved_by(st, conflicts) ==
    IF st = "confidence" THEN resolve_conflicts_by_confidence(conflicts)
    ELSE IF st = "support" THEN resolve_conflicts_by_support(conflicts)
    ELSE IF st = "specificity" THEN resolve_conflicts_by_specificity(conflicts)
    ELSE IF st = "keep_all" THEN resolve_conflicts_keep_all(conflicts)
    ELSE resolve_conflicts_by_confidence(conflicts)

ConflictReport(total, subjects, details, st, resolved) ==
    [status |-> "ConflictReport", total_conflicts |-> total,
     conflicting_subjects |-> subjects, conflict_details |-> details,
     resolution_strategy |-> st, resolved_mappings |-> resolved]

\* resolve_conflicts that returns the chosen records without the records of the
\* subjects that have no conflict
resolve_conflicts_OnlyResolved(fm, st) ==
    LET conflicts == identify_conflicts(fm)
    IN  IF conflicts = <<>>
        THEN ConflictReport(0, <<>>, <<>>, st, fm)
        ELSE ConflictReport(Len(conflicts), sorted_subjects(Range(DictKeys(conflicts))),
                            conflicts, st, resolved_by(st, conflicts))

\* resolve_conflicts(mappings, strategy)
resolve_conflicts(fm, st) ==
    LET conflicts == identify_conflicts(fm)
    IN  IF conflicts = <<>>
        THEN ConflictReport(0, <<>>, <<>>, st, fm)
        ELSE LET resolved == resolved_by(st, conflicts)
                 conflict_subjects == Range(DictKeys(conflicts))
                 non_conflicting ==
                     SelectSeq(fm, LAMBDA m : m.subject_id \notin conflict_subjects)
             IN  ConflictReport(Len(conflicts), sorted_subjects(conflict_subjects),
                                conflicts, st, non_conflicting \o resolved)

-----------------------------------------------------------------------------
(* Conflicts: a fused list with up to two subjects, and calls of            *)
(* resolve_conflicts                                                        *)

ConflictMatchers == <<"A", "B">>
ConflictKeys ==
    <<<<"S2", "O1", "skos:closeMatch">>, <<"S1", "O1", "owl:equivalentClass">>,
      <<"S1", "O2", "skos:closeMatch">>, <<"S1", "O1", "skos:closeMatch">>,
      <<"S2", "O2", "rdfs:seeAlso">>, <<"S2", "O1", "skos:exactMatch">>>>

ConflictMappings(name, present) ==
    LET ks == SelectSeq(ConflictKeys, LAMBDA k : k \in present)
    IN  [i \in 1..Len(ks) |->
            Mapping(ks[i][1], ks[i][2], ks[i][3], VoteConfidence(name), name, None)]

ConflictFiles ==
    {[i \in 1..Len(ConflictMatchers) |->
         [matcher_name |-> ConflictMatchers[i],
          mappings |-> ConflictMappings(ConflictMatchers[i], f[i])]] :
     f \in [1..Len(ConflictMatchers) -> SUBSET Range(ConflictKeys)]}

\* what a caller may pass as strategy: the four known strings and another one
ResolveStrategies == {"confidence", "support", "specificity", "keep_all", "newest"}

InitConflict ==
    /\ files \in ConflictFiles
    /\ min_confidence = RInt(0)
    /\ fused = <<>>
    /\ config = NoConfig
    /\ total_matchers = 0
    /\ result = NoResult
    /\ pc = "input"
    /\ QualityIdle
    /\ DriverIdle

\* resolve_conflicts(fused, strategy)
Resolve ==
    /\ pc \in {"fused", "called"}
    /\ \E st \in ResolveStrategies :
          /\ resolution_strategy' = st
          /\ report' = resolve_conflicts(fused, st)
    /\ pc' = "called"
    /\ UNCHANGED driverVars
    /\ UNCHANGED <<files, min_confidence, fused, config, total_matchers, result>>
    /\ UNCHANGED <<reference, comparison, metrics, agreement, suggested>>

NextConflict == FuseDefault \/ Resolve

SpecConflict == InitConflict /\ [][NextConflict]_vars

-----------------------------------------------------------------------------
(* quality.py: comparison with a reference set *)

\* {m.get_key() for m in mappings}
KeySet(fm) == {get_key(fm[i]) : i \in 1..Len(fm)}

\* the harmonic mean of compare_with_reference, 0.0 when precision + recall is 0
f1_of_Half(precision, recall) ==
    IF RGt(RAdd(precision, recall), RInt(0))
    THEN RDiv(RMul(precision, recall), RAdd(precision, recall))
    ELSE RInt(0)

f1_of(precision, recall) ==
    IF RGt(RAdd(precision, recall), RInt(0))
    THEN RDiv(RMul(RInt(2), RMul(precision, recall)), RAdd(precision, recall))
    ELSE RInt(0)

Comparison(tp, fp, fn, precision, recall) ==
    [status |-> "dict", precision |-> precision, recall |-> recall,
     f1_score |-> f1_of(precision, recall), true_positives |-> tp,
     false_positives |-> fp, false_negatives |-> fn]

\* compare_with_reference that counts the rows of the two lists
compare_with_reference_CountsRows(fm, ref) ==
    LET tp == Cardinality(KeySet(fm) \cap KeySet(ref))
        fp == Len(fm) - tp
        fn == Len(ref) - tp
    IN  Comparison(tp, fp, fn,
                   IF tp + fp > 0 THEN R(tp, tp + fp) ELSE RInt(0),
                   IF tp + fn > 0 THEN R(tp, tp + fn) ELSE RInt(0))

\* compare_with_reference(mappings, reference_mappings)
compare_with_reference(fm, ref) ==
    LET mapping_keys == KeySet(fm)
        reference_keys == KeySet(ref)
        true_positives == Cardinality(mapping_keys \cap reference_keys)
        false_positives == Cardinality(mapping_keys \ reference_keys)
        false_negatives == Cardinality(reference_keys \ mapping_keys)
    IN  Comparison(true_positives, false_positives, false_negatives,
                   IF true_positives + false_positives > 0
                   THEN R(true_positives, true_positives + false_positives)
                   ELSE RInt(0),
                   IF true_positives + false_negatives > 0
                   THEN R(true_positives, true_positives + false_negatives)
                   ELSE RInt(0))

-----------------------------------------------------------------------------
(* Comparison: a fused list and a reference list the caller supplies *)

\* the keys of the reference records: those of the fused list and another one
ReferenceKeys == VoteKeys \o <<<<"S2", "O2", "skos:closeMatch">>>>

\* a reference record, as fused from the file of one gold matcher
ReferenceMapping(key) ==
    FuseGroup(key, <<Mapping(key[1], key[2], key[3], RInt(1), "gold", None)>>)

\* the reference lists: any rows over the reference keys, repeated rows included
References ==
    UNION {[1..n -> {ReferenceMapping(k) : k \in Range(ReferenceKeys)}] :
           n \in 0..MaxReference}

\* compare_with_reference(fused, reference)
Compare ==
    /\ pc = "fused"
    /\ \E ref \in References :
          /\ reference' = Some(ref)
          /\ comparison' = compare_with_reference(fused, ref)
    /\ pc' = "called"
    /\ UNCHANGED driverVars
    /\ UNCHANGED <<files, min_confidence, fused, config, total_matchers, result>>
    /\ UNCHANGED <<resolution_strategy, report, metrics, agreement, suggested>>

NextCompare == FuseDefault \/ Compare

SpecCompare == InitVoting /\ [][NextCompare]_vars

-----------------------------------------------------------------------------
(* quality.py: metrics *)

\* min(xs) and max(xs) of a non-empty list of floats
RECURSIVE MinOf(_)
MinOf(xs) ==
    IF Len(xs) = 1 THEN xs[1]
    ELSE LET m == MinOf(Tail(xs)) IN IF RGt(xs[1], m) THEN m ELSE xs[1]

RECURSIVE MaxOf(_)
MaxOf(xs) ==
    IF Len(xs) = 1 THEN xs[1]
    ELSE LET m == MaxOf(Tail(xs)) IN IF RGt(m, xs[1]) THEN m ELSE xs[1]

\* the dict key -> number of occurrences in xs, keys in first-seen order
CountDict(xs) ==
    LET keys == FirstSeen(xs)
    IN  [i \in 1..Len(keys) |->
            <<keys[i], Len(SelectSeq(xs, LAMBDA x : x = keys[i]))>>]

\* CountIn with the bins closed at the upper end: lo < c <= hi
CountIn_UpperClosed(confidences, lo, hi) ==
    Len(SelectSeq(confidences, LAMBDA c : RGt(c, lo) /\ RGe(hi, c)))

\* sum(1 for c in confidences if lo <= c < hi)
CountIn(confidences, lo, hi) ==
    Len(SelectSeq(confidences, LAMBDA c : RGe(c, lo) /\ RGt(hi, c)))

confidence_distribution(confidences) ==
    <<<<"0.0-0.2", CountIn(confidences, RInt(0), R(2, 10))>>,
      <<"0.2-0.4", CountIn(confidences, R(2, 10), R(4, 10))>>,
      <<"0.4-0.6", CountIn(confidences, R(4, 10), R(6, 10))>>,
      <<"0.6-0.8", CountIn(confidences, R(6, 10), R(8, 10))>>,
      <<"0.8-1.0",
        Len(SelectSeq(confidences, LAMBDA c : RGe(c, R(8, 10)) /\ RGe(RInt(1), c)))>>>>

\* QualityMetrics(...): counts is (total_mappings, unique_subjects,
\* unique_objects), conf and supp are the (avg, min, max) of the confidences and
\* of the support counts, dists the three distributions
QualityMetrics(counts, conf, supp, dists) ==
    [status |-> "QualityMetrics", total_mappings |-> counts[1],
     unique_subjects |-> counts[2], unique_objects |-> counts[3],
     avg_confidence |-> conf[1], min_confidence |-> conf[2],
     max_confidence |-> conf[3], avg_support_count |-> supp[1],
     min_support_count |-> supp[2], max_support_count |-> supp[3],
     confidence_distribution |-> dists[1], support_distribution |-> dists[2],
     predicate_distribution |-> dists[3]]

\* the statistics of a list that is not empty
metrics_of(fm) ==
    LET confidences == [i \in 1..Len(fm) |-> fm[i].consensus_confidence]
        support_counts == [i \in 1..Len(fm) |-> RInt(support_count(fm[i]))]
    IN  QualityMetrics(<<Len(fm),
                         Cardinality({fm[i].subject_id : i \in 1..Len(fm)}),
                         Cardinality({fm[i].object_id : i \in 1..Len(fm)})>>,
                       <<RDiv(SumSeq(confidences), RInt(Len(confidences))),
                         MinOf(confidences), MaxOf(confidences)>>,
                       <<RDiv(SumSeq(support_counts), RInt(Len(support_counts))),
                         MinOf(support_counts)[1], MaxOf(support_counts)[1]>>,
                       <<confidence_distribution(confidences),
                         CountDict([i \in 1..Len(fm) |-> support_count(fm[i])]),
                         CountDict([i \in 1..Len(fm) |-> fm[i].predicate_id])>>)

\* calculate_quality_metrics without the early return: sum(...) / len(...) of
\* an empty list
calculate_quality_metrics_NoGuard(fm) ==
    IF fm = <<>> THEN [status |-> "ZeroDivisionError"] ELSE metrics_of(fm)

\* calculate_quality_metrics(mappings)
calculate_quality_metrics(fm) ==
    IF fm = <<>>
    THEN QualityMetrics(<<0, 0, 0>>, <<RInt(0), RInt(0), RInt(0)>>, <<RInt(0), 0, 0>>,
                        <<<<>>, <<>>, <<>>>>)
    ELSE metrics_of(fm)

-----------------------------------------------------------------------------
(* voting.py: matcher agreement and suggested weights *)

\* the matcher names of the model as sorted() orders them
SortedMatchers == <<"A", "B", "gold", "matcher_0">>
sorted_matchers(S) == SelectSeq(SortedMatchers, LAMBDA x : x \in S)

\* the set all_matchers of the two advisors
all_matchers_of(fm) == UNION {Range(fm[i].supporting_matchers) : i \in 1..Len(fm)}

\* pair_agreement that divides by the number of all fused records
pair_agreement_OverAll(fm, matcher1, matcher2) ==
    LET both_agree ==
            Len(SelectSeq(fm, LAMBDA m : /\ matcher1 \in Range(m.supporting_matchers)
                                         /\ matcher2 \in Range(m.supporting_matchers)))
    IN  IF Len(fm) > 0 THEN R(both_agree, Len(fm)) ELSE RInt(0)

\* the Jaccard score of one pair of matchers
pair_agreement(fm, matcher1, matcher2) ==
    LET both_agree ==
            Len(SelectSeq(fm, LAMBDA m : /\ matcher1 \in Range(m.supporting_matchers)
                                         /\ matcher2 \in Range(m.supporting_matchers)))
        either_supports ==
            Len(SelectSeq(fm, LAMBDA m : \/ matcher1 \in Range(m.supporting_matchers)
                                         \/ matcher2 \in Range(m.supporting_matchers)))
    IN  IF either_supports > 0 THEN R(both_agree, either_supports) ELSE RInt(0)

\* calculate_matcher_agreement(fused_mappings): dict (matcher1, matcher2) -> score
calculate_matcher_agreement(fm) ==
    LET matcher_list == sorted_matchers(all_matchers_of(fm))
        n == Len(matcher_list)
    IN  Concat([i \in 1..n |->
                   [k \in 1..(n - i) |->
                       <<<<matcher_list[i], matcher_list[i + k]>>,
                         pair_agreement(fm, matcher_list[i], matcher_list[i + k])>>]])

\* the precision of one matcher against the reference keys
matcher_precision(fm, matcher, reference_keys) ==
    LET matcher_keys ==
            KeySet(SelectSeq(fm, LAMBDA m : matcher \in Range(m.supporting_matchers)))
        true_positives == Cardinality(matcher_keys \cap reference_keys)
    IN  IF matcher_keys # {}
        THEN R(true_positives, Cardinality(matcher_keys))
        ELSE RInt(0)

\* the mean agreement of one matcher with the others
matcher_avg_agreement(agreement_scores, matcher) ==
    LET agreements ==
            DictValues(SelectSeq(agreement_scores,
                                 LAMBDA e : e[1][1] = matcher \/ e[1][2] = matcher))
    IN  IF agreements # <<>>
        THEN RDiv(SumSeq(agreements), RInt(Len(agreements)))
        ELSE RInt(0)

\* suggest_matcher_weights that returns the raw scores
suggest_matcher_weights_Raw(fm, ref) ==
    LET matchers == sorted_matchers(all_matchers_of(fm))
    IN  IF ref # None /\ ref[1] # <<>>
        THEN [i \in 1..Len(matchers) |->
                 <<matchers[i], matcher_precision(fm, matchers[i], KeySet(ref[1]))>>]
        ELSE [i \in 1..Len(matchers) |->
                 <<matchers[i],
                   matcher_avg_agreement(calculate_matcher_agreement(fm), matchers[i])>>]

\* suggest_matcher_weights(fused_mappings, reference_mappings): dict matcher ->
\* weight. all_matchers is a set, so the order of the dict is not fixed by the
\* code; the dict is given in sorted order.
suggest_matcher_weights(fm, ref) ==
    LET matchers == sorted_matchers(all_matchers_of(fm))
        matcher_scores ==
            IF ref # None /\ ref[1] # <<>>
            THEN [i \in 1..Len(matchers) |->
                     <<matchers[i], matcher_precision(fm, matchers[i], KeySet(ref[1]))>>]
            ELSE [i \in 1..Len(matchers) |->
                     <<matchers[i],
                       matcher_avg_agreement(calculate_matcher_agreement(fm),
                                             matchers[i])>>]
        total_score == SumSeq(DictValues(matcher_scores))
    IN  IF RGt(total_score, RInt(0))
        THEN [i \in 1..Len(matchers) |->
                 <<matchers[i], RDiv(matcher_scores[i][2], total_score)>>]
        ELSE [i \in 1..Len(matchers) |-> <<matchers[i], R(1, Len(matchers))>>]

-----------------------------------------------------------------------------
(* Ensemble: a caller fuses, then votes or calls one function of the quality *)
(* tools, and may resolve conflicts after it                                *)

\* a dict returned to the caller
DictResult(d) == [status |-> "dict", items |-> d]

\* calculate_quality_metrics(fused)
Analyze ==
    /\ pc = "fused"
    /\ metrics' = calculate_quality_metrics(fused)
    /\ pc' = "called"
    /\ UNCHANGED driverVars
    /\ UNCHANGED <<files, min_confidence, fused, config, total_matchers, result>>
    /\ UNCHANGED <<reference, resolution_strategy, report, comparison, agreement,
                   suggested>>

\* calculate_matcher_agreement(fused)
Agreement ==
    /\ pc = "fused"
    /\ agreement' = DictResult(calculate_matcher_agreement(fused))
    /\ pc' = "called"
    /\ UNCHANGED driverVars
    /\ UNCHANGED <<files, min_confidence, fused, config, total_matchers, result>>
    /\ UNCHANGED <<reference, resolution_strategy, report, comparison, metrics,
                   suggested>>

\* suggest_matcher_weights(fused) and suggest_matcher_weights(fused, reference)
Suggest ==
    /\ pc = "fused"
    /\ \E ref \in {None} \cup {Some(r) : r \in References} :
          /\ reference' = ref
          /\ suggested' = DictResult(suggest_matcher_weights(fused, ref))
    /\ pc' = "called"
    /\ UNCHANGED driverVars
    /\ UNCHANGED <<files, min_confidence, fused, config, total_matchers, result>>
    /\ UNCHANGED <<resolution_strategy, report, comparison, metrics, agreement>>

NextEnsemble ==
    \/ FuseDefault
    \/ NewConfig
    \/ Vote
    \/ Analyze
    \/ Resolve
    \/ Compare
    \/ Agreement
    \/ Suggest

SpecEnsemble == InitVoting /\ [][NextEnsemble]_vars

-----------------------------------------------------------------------------
(* Histogram: one matcher reports up to three keys with confidences on and   *)
(* off the bin boundaries, and the caller computes the metrics               *)

HistKeys == SubSeq(ConflictKeys, 1, 3)
HistConfidences ==
    {RInt(0), R(1, 10), R(1, 5), R(2, 5), R(3, 5), R(4, 5), RInt(1), R(3, 2)}

\* the file of matcher A: for every key no row, or a row with confidence c[key]
HistFiles ==
    {<<[matcher_name |-> "A",
        mappings |->
            LET ks == SelectSeq(HistKeys, LAMBDA k : c[k] # None)
            IN  [i \in 1..Len(ks) |->
                    Mapping(ks[i][1], ks[i][2], ks[i][3], c[ks[i]][1], "A", None)]]>> :
     c \in [Range(HistKeys) -> {None} \cup {Some(v) : v \in HistConfidences}]}

InitHistogram ==
    /\ files \in HistFiles
    /\ min_confidence = RInt(0)
    /\ fused = <<>>
    /\ config = NoConfig
    /\ total_matchers = 0
    /\ result = NoResult
    /\ pc = "input"
    /\ QualityIdle
    /\ DriverIdle

NextHistogram == FuseDefault \/ Analyze

SpecHistogram == InitHistogram /\ [][NextHistogram]_vars

-----------------------------------------------------------------------------
(* Justifications: two matchers report one key, their rows with or without  *)
(* a justification                                                          *)

JustValues == {None, Some(""), Some("lexical"), Some("semantic")}
MaxRows == 2    \* rows of the first matcher's file

JustRows(name, n) ==
    {[i \in 1..n |-> Mapping("S1", "O1", "skos:closeMatch", RInt(1), name, j[i])] :
     j \in [1..n -> JustValues]}

JustFiles ==
    {<<[matcher_name |-> "A", mappings |-> a], [matcher_name |-> "B", mappings |-> b]>> :
     a \in UNION {JustRows("A", n) : n \in 0..MaxRows},
     b \in UNION {JustRows("B", n) : n \in 0..1}}

InitJustify ==
    /\ files \in JustFiles
    /\ min_confidence = RInt(0)
    /\ fused = <<>>
    /\ config = NoConfig
    /\ total_matchers = 0
    /\ result = NoResult
    /\ pc = "input"
    /\ QualityIdle
    /\ DriverIdle

NextJustify == FuseDefault

SpecJustify == InitJustify /\ [][NextJustify]_vars

-----------------------------------------------------------------------------
(* Properties of fuse_mappings *)

\* the raw records of the current input, and those that pass the filter
RawSet == UNION {Range(files[i].mappings) : i \in 1..Len(files)}
KeptSet == {m \in RawSet : RGe(m.confidence, min_confidence)}
KeptOf(key, name) == {m \in KeptSet : get_key(m) = key /\ m.matcher_name = name}
FusedSet == Range(fused)

RECURSIVE SumOver(_, _)
SumOver(S, d) ==
    IF S = {} THEN RInt(0)
    ELSE LET k == CHOOSE k \in S : TRUE
         IN  RAdd(DictGet(d, k, RInt(0)), SumOver(S \ {k}, d))

\* some matcher reported the key of x more than once above the filter
ReportedTwice(x) ==
    \E name \in Range(x.supporting_matchers) : Cardinality(KeptOf(get_key(x), name)) >= 2

\* C3: in every fused record support_count = len(supporting_matchers) = the number
\* of distinct names in supporting_matchers = len(confidences), and the names of
\* supporting_matchers are exactly the keys of confidences.
C3_SupportCountInvariant ==
    \A x \in FusedSet :
        /\ support_count(x) = Len(x.supporting_matchers)
        /\ support_count(x) = Cardinality(Range(x.supporting_matchers))
        /\ support_count(x) = Len(x.confidences)
        /\ Cardinality(Range(DictKeys(x.confidences))) = Len(x.confidences)
        /\ Range(x.supporting_matchers) = Range(DictKeys(x.confidences))

C3_Witness ==
    /\ pc = "fused"
    /\ \E x \in FusedSet : ReportedTwice(x) /\ support_count(x) >= 2

\* C4: in every fused record consensus_confidence is the unweighted arithmetic mean
\* of the values of confidences: their sum divided by support_count, however many
\* raw records each matcher contributed.
C4_ConsensusIsMean ==
    \A x \in FusedSet :
        /\ support_count(x) >= 1
        /\ x.consensus_confidence =
               RDiv(SumOver(Range(DictKeys(x.confidences)), x.confidences),
                    RInt(support_count(x)))

C4_Witness ==
    /\ pc = "fused"
    /\ \E x \in FusedSet :
          /\ ReportedTwice(x)
          /\ support_count(x) >= 2
          /\ Cardinality(Range(DictValues(x.confidences))) >= 2

\* what a permutation of the input may not change: per key the confidences map,
\* the support count and the consensus confidence
Canon(fm) ==
    {[key |-> get_key(fm[i]),
      confidences |-> Range(fm[i].confidences),
      support_count |-> support_count(fm[i]),
      consensus_confidence |-> fm[i].consensus_confidence] : i \in 1..Len(fm)}

C6_MaxPerMatcher ==
    pc = "fused" =>
        \A x \in FusedSet : \A i \in 1..Len(x.confidences) :
            LET mine == KeptOf(get_key(x), x.confidences[i][1])
                c == x.confidences[i][2]
            IN  /\ \E m \in mine : m.confidence = c
                /\ \A m \in mine : RGe(c, m.confidence)

\* C7: one fused record per distinct key among the raw records with
\* confidence >= min_confidence: no key twice, no key whose records are all below
\* min_confidence, no supporter whose records for the key are all below it, every
\* support_count >= 1, and nothing from an empty input.
C7_OneRecordPerKey ==
    pc = "fused" =>
        LET kept == KeptSet
        IN  /\ \A i, j \in 1..Len(fused) :
                  get_key(fused[i]) = get_key(fused[j]) => i = j
            /\ {get_key(x) : x \in FusedSet} = {get_key(m) : m \in kept}
            /\ \A x \in FusedSet :
                  /\ support_count(x) >= 1
                  /\ Range(x.supporting_matchers) =
                         {m.matcher_name : m \in {k \in kept : get_key(k) = get_key(x)}}
            /\ (kept = {} => fused = <<>>)

C7_Witness ==
    /\ pc = "fused"
    /\ fused # <<>>
    /\ \E m \in RawSet \ KeptSet : get_key(m) \notin {get_key(x) : x \in FusedSet}
    /\ \E m \in RawSet \ KeptSet : get_key(m) \in {get_key(x) : x \in FusedSet}
    /\ \E m \in KeptSet : m.confidence = min_confidence

-----------------------------------------------------------------------------
(* Properties of vote *)

Voted == pc = "voted" /\ result.status = "VotingResult"
Accepted == Range(result.accepted_mappings)
Rejected == Range(result.rejected_mappings)

\* the records of the fused list that survive the pre-filter of the last call
PreFiltered ==
    {x \in FusedSet :
        \/ ~RGt(config.min_confidence, RInt(0))
        \/ RGe(x.consensus_confidence, config.min_confidence)}

\* C1: accepted and rejected partition the pre-filtered set: every record with
\* consensus_confidence >= min_confidence (every record when min_confidence <= 0)
\* is in exactly one of the two lists, once, and no dropped record is in either.
C1_Partition ==
    Voted =>
        /\ Accepted \cup Rejected = PreFiltered
        /\ Accepted \cap Rejected = {}
        /\ Len(result.accepted_mappings) = Cardinality(Accepted)
        /\ Len(result.rejected_mappings) = Cardinality(Rejected)

\* one record is dropped by the pre-filter and the one that survives is rejected
C1_Witness ==
    /\ Voted
    /\ FusedSet \ PreFiltered # {}
    /\ Rejected # {}

\* C2: a call of vote leaves the caller's VotingConfig as it was.
C2_ConfigUnchanged == [][pc' = "voted" => config' = config]_vars

\* C8: Majority accepts a pre-filtered record iff strictly more than half of
\* total_matchers support it.
C8_Majority ==
    (Voted /\ config.strategy = "majority") =>
        \A x \in PreFiltered : x \in Accepted <=> 2 * support_count(x) > total_matchers

C8_Witness ==
    /\ Voted
    /\ config.strategy = "majority"
    /\ total_matchers = 4
    /\ \E x \in Rejected : support_count(x) = 2
    /\ \E x \in Accepted : support_count(x) = 3

\* C9: Unanimous accepts a pre-filtered record iff support_count = total_matchers.
C9_Unanimous ==
    (Voted /\ config.strategy = "unanimous") =>
        \A x \in PreFiltered : x \in Accepted <=> support_count(x) = total_matchers

C9_Witness ==
    /\ Voted
    /\ config.strategy = "unanimous"
    /\ total_matchers = 3
    /\ \E x \in Rejected : support_count(x) = 2
    /\ \E x \in Accepted : support_count(x) = 3

\* the integer part of min_support_ratio * total_matchers
RatioCount ==
    LET n == config.min_support_ratio[1] * total_matchers
        d == config.min_support_ratio[2]
    IN  CHOOSE t \in 0..(n + 1) : t * d <= n /\ n < (t + 1) * d

\* C10: Threshold accepts a pre-filtered record iff support_count >=
\* max(min_support_count, min_support_ratio * total_matchers truncated toward zero).
C10_Threshold ==
    (Voted /\ config.strategy = "threshold") =>
        \A x \in PreFiltered :
            x \in Accepted <=>
                /\ support_count(x) >= config.min_support_count
                /\ support_count(x) >= RatioCount

\* ratio 0.6 with 4 matchers: 2 supporters are enough
C10_Witness ==
    /\ Voted
    /\ config.strategy = "threshold"
    /\ config.min_support_ratio = R(3, 5)
    /\ total_matchers = 4
    /\ config.min_support_count = 1
    /\ \E x \in Accepted : support_count(x) = 2
    /\ \E x \in Rejected : support_count(x) = 1

\* the weight the config holds for a matcher, 0 when it holds none
WeightOf(name) == DictGet(config.matcher_weights[1], name, RInt(0))

RECURSIVE WeightSum(_)
WeightSum(S) ==
    IF S = {} THEN RInt(0)
    ELSE LET k == CHOOSE k \in S : TRUE
         IN  RAdd(WeightOf(k), WeightSum(S \ {k}))

CallerWeights == Some(<<<<"A", R(1, 2)>>, <<"B", R(1, 4)>>>>)

\* C11: Weighted voting with the caller's matcher_weights accepts a pre-filtered
\* record iff the weights of its supporting matchers, 0 for a matcher without a
\* weight, sum to at least min_support_ratio.
C11_Weighted ==
    (Voted /\ config.strategy = "weighted" /\ config.matcher_weights = CallerWeights) =>
        \A x \in PreFiltered :
            x \in Accepted <=>
                RGe(WeightSum(Range(x.supporting_matchers)), config.min_support_ratio)

\* a record backed by A and by a matcher without a weight reaches 0.5 exactly;
\* a record backed only by the matcher without a weight does not
C11_Witness ==
    /\ Voted
    /\ config.strategy = "weighted"
    /\ config.matcher_weights = CallerWeights
    /\ config.min_support_ratio = R(1, 2)
    /\ \E x \in Accepted : Range(x.supporting_matchers) = {"A", "matcher_0"}
    /\ \E x \in Rejected : Range(x.supporting_matchers) = {"matcher_0"}

\* C12: vote with a strategy outside the five of VotingStrategy ends in an error
\* and returns no VotingResult.
C12_UnknownStrategyFails ==
    (pc = "voted" /\ config.strategy \notin Strategies) =>
        /\ result.status \in {"ValueError", "AttributeError"}
        /\ DOMAIN result = {"status"}

C12_Witness ==
    /\ pc = "voted"
    /\ config.strategy = "consensus"
    /\ result.status = "ValueError"
    /\ Len(fused) = 2

-----------------------------------------------------------------------------
(* Properties of resolve_conflicts *)

Resolved == pc = "called" /\ report.status = "ConflictReport"
ResolvedSeq == report.resolved_mappings
FusedOf(s) == {x \in FusedSet : x.subject_id = s}
FusedSubjects == {x.subject_id : x \in FusedSet}
ConflictingSubjects ==
    {s \in FusedSubjects : Cardinality({x.object_id : x \in FusedOf(s)}) > 1}
\* the positions of the resolved list that hold a record of subject s
ResolvedAt(s) == {i \in 1..Len(ResolvedSeq) : ResolvedSeq[i].subject_id = s}
\* the positions of the resolved list that hold the record x
Occurrences(x) == {i \in 1..Len(ResolvedSeq) : ResolvedSeq[i] = x}

\* C13: the subjects reported as conflicting are exactly those whose fused
\* records carry more than one distinct object_id; nothing is reported when
\* every subject has one object; total_conflicts counts those subjects and
\* conflicting_subjects lists them sorted.
C13_ConflictingSubjects ==
    Resolved =>
        /\ Range(DictKeys(report.conflict_details)) = ConflictingSubjects
        /\ Len(report.conflict_details) = Cardinality(ConflictingSubjects)
        /\ (ConflictingSubjects = {} => report.conflict_details = <<>>)
        /\ report.total_conflicts = Cardinality(ConflictingSubjects)
        /\ Range(report.conflicting_subjects) = ConflictingSubjects
        /\ report.conflicting_subjects \in {<<>>, <<"S1">>, <<"S2">>, <<"S1", "S2">>}

\* S2 comes first and conflicts with three records, S1 reaches one object
\* through two predicates and does not conflict
C13_Witness ==
    /\ Resolved
    /\ fused # <<>>
    /\ fused[1].subject_id = "S2"
    /\ Cardinality(FusedOf("S2")) = 3
    /\ Cardinality(FusedOf("S1")) = 2
    /\ report.total_conflicts = 1
    /\ report.conflicting_subjects = <<"S2">>

\* C14: strategy "confidence" leaves exactly one record of every conflicting
\* subject, and no record of the subject has a higher consensus_confidence.
C14_ByConfidence ==
    (Resolved /\ resolution_strategy = "confidence") =>
        \A s \in ConflictingSubjects :
            /\ Cardinality(ResolvedAt(s)) = 1
            /\ \A i \in ResolvedAt(s) : \A y \in FusedOf(s) :
                   RGe(ResolvedSeq[i].consensus_confidence, y.consensus_confidence)

\* the record kept is neither the first of its group nor the one with the
\* most supporters
C14_Witness ==
    /\ Resolved
    /\ resolution_strategy = "confidence"
    /\ \E s \in ConflictingSubjects : \E i \in ResolvedAt(s) :
          /\ ResolvedSeq[i] # subject_to_mappings(fused)[1][2][1]
          /\ fused[1].subject_id = s
          /\ \E y \in FusedOf(s) : support_count(y) > support_count(ResolvedSeq[i])
          /\ \E y \in FusedOf(s) :
                RGt(ResolvedSeq[i].consensus_confidence, y.consensus_confidence)

\* C15: the resolved list holds input records only: under confidence, support
\* and specificity every record of a subject without conflict once, and one
\* record of each conflicting subject; under keep_all every input record.
C15_ResolvedFromInput ==
    Resolved =>
        /\ Range(ResolvedSeq) \subseteq FusedSet
        /\ resolution_strategy \in {"confidence", "support", "specificity"} =>
              /\ \A x \in FusedSet :
                    x.subject_id \notin ConflictingSubjects =>
                        Cardinality(Occurrences(x)) = 1
              /\ \A s \in ConflictingSubjects : Cardinality(ResolvedAt(s)) = 1
        /\ resolution_strategy = "keep_all" =>
              \A x \in FusedSet : Cardinality(Occurrences(x)) = 1

C15_Witness ==
    /\ Resolved
    /\ resolution_strategy = "specificity"
    /\ ConflictingSubjects = {"S1"}
    /\ Cardinality(FusedOf("S1")) = 3
    /\ Cardinality(FusedOf("S2")) = 2
    /\ Len(ResolvedSeq) = 3

\* C16: a strategy string that is none of the four known ones raises nothing
\* and gives the resolved records of strategy "confidence".
C16_UnknownFallsBack ==
    (pc = "called" /\ resolution_strategy = "newest") =>
        /\ report.status = "ConflictReport"
        /\ ResolvedSeq = resolve_conflicts(fused, "confidence").resolved_mappings

C16_Witness ==
    /\ Resolved
    /\ resolution_strategy = "newest"
    /\ ConflictingSubjects # {}
    /\ Len(ResolvedSeq) < Len(fused)
    /\ ResolvedSeq # resolve_conflicts(fused, "support").resolved_mappings

\* C17: strategy "support" keeps, for every conflicting subject, a record that
\* no record of the subject beats on support_count, nor on
\* consensus_confidence at the same support_count.
C17_BySupport ==
    (Resolved /\ resolution_strategy = "support") =>
        \A s \in ConflictingSubjects : \A i \in ResolvedAt(s) : \A y \in FusedOf(s) :
            /\ support_count(y) <= support_count(ResolvedSeq[i])
            /\ support_count(y) = support_count(ResolvedSeq[i]) =>
                   RGe(ResolvedSeq[i].consensus_confidence, y.consensus_confidence)

\* the record kept has two supporters and a lower confidence than a record
\* with one supporter
C17_Witness ==
    /\ Resolved
    /\ resolution_strategy = "support"
    /\ \E s \in ConflictingSubjects : \E i \in ResolvedAt(s) : \E y \in FusedOf(s) :
          /\ support_count(ResolvedSeq[i]) = 2
          /\ support_count(y) = 1
          /\ RGt(y.consensus_confidence, ResolvedSeq[i].consensus_confidence)

-----------------------------------------------------------------------------
(* Properties of compare_with_reference *)

Compared == pc = "called" /\ comparison.status = "dict"
FusedKeys == {get_key(x) : x \in FusedSet}
RefKeys == IF reference = None THEN {} ELSE {get_key(x) : x \in Range(reference[1])}
AllOf(v) ==
    /\ comparison.precision = v
    /\ comparison.recall = v
    /\ comparison.f1_score = v

\* C18 as stated: every pair of identical key sets scores 1.0 three times, every
\* pair without a common key 0.0 three times.
C18_IdenticalIsOne ==
    Compared =>
        /\ FusedKeys = RefKeys => AllOf(RInt(1))
        /\ FusedKeys \cap RefKeys = {} => AllOf(RInt(0))

\* C18: identical key sets that are not empty give precision = recall = f1 =
\* 1.0, two empty sets and any two sets without a common key give 0.0 for all
\* three.
C18_IdenticalNonEmptyIsOne ==
    Compared =>
        /\ (FusedKeys = RefKeys /\ FusedKeys # {}) => AllOf(RInt(1))
        /\ FusedKeys \cap RefKeys = {} => AllOf(RInt(0))

\* the same two keys on both sides, the reference with a repeated row
C18_Witness ==
    /\ Compared
    /\ FusedKeys = RefKeys
    /\ Cardinality(FusedKeys) = 2
    /\ Len(reference[1]) = 3
    /\ AllOf(RInt(1))

\* C19: the counts are those of the key sets F and R, precision and recall are
\* TP/(TP+FP) and TP/(TP+FN) or 0.0 on a zero denominator, f1 is 2PR/(P+R) or
\* 0.0; F = {k1}, R = {k1, k2} gives 1, 1/2, 2/3.
C19_Counts ==
    Compared =>
        LET tp == comparison.true_positives
            fp == comparison.false_positives
            fn == comparison.false_negatives
            P == comparison.precision
            Q == comparison.recall
        IN  /\ tp = Cardinality(FusedKeys \cap RefKeys)
            /\ fp = Cardinality(FusedKeys \ RefKeys)
            /\ fn = Cardinality(RefKeys \ FusedKeys)
            /\ tp + fp = Cardinality(FusedKeys)
            /\ tp + fn = Cardinality(RefKeys)
            /\ P = (IF tp + fp = 0 THEN RInt(0) ELSE R(tp, tp + fp))
            /\ Q = (IF tp + fn = 0 THEN RInt(0) ELSE R(tp, tp + fn))
            /\ IF RAdd(P, Q) = RInt(0)
               THEN comparison.f1_score = RInt(0)
               ELSE RMul(comparison.f1_score, RAdd(P, Q)) = RMul(RInt(2), RMul(P, Q))
            /\ (FusedKeys = {VoteKeys[1]} /\ RefKeys = Range(VoteKeys)) =>
                   /\ P = RInt(1)
                   /\ Q = R(1, 2)
                   /\ comparison.f1_score = R(2, 3)

\* F = {k1}, R = {k1, k2} with a row of the reference repeated
C19_Witness ==
    /\ Compared
    /\ FusedKeys = {VoteKeys[1]}
    /\ RefKeys = Range(VoteKeys)
    /\ Len(reference[1]) = 3
    /\ comparison.f1_score = R(2, 3)

-----------------------------------------------------------------------------
(* Properties of the degenerate inputs *)

Called(v) == pc = "called" /\ v.status # "none"

\* C20: on an empty fused list the metrics are all 0, resolve_conflicts reports
\* no conflict, the agreement and the suggested weights are empty dicts; a
\* comparison with an empty fused or reference list scores 0; vote with
\* total_matchers = 0 returns a VotingResult under each of the five strategies.
\* None of the calls raises.
C20_Degenerate ==
    /\ (Called(metrics) /\ fused = <<>>) =>
          /\ metrics.status = "QualityMetrics"
          /\ metrics.total_mappings = 0
          /\ metrics.unique_subjects = 0
          /\ metrics.unique_objects = 0
          /\ metrics.avg_confidence = RInt(0)
          /\ metrics.min_confidence = RInt(0)
          /\ metrics.max_confidence = RInt(0)
          /\ metrics.avg_support_count = RInt(0)
          /\ metrics.min_support_count = 0
          /\ metrics.max_support_count = 0
          /\ \A i \in 1..Len(metrics.confidence_distribution) :
                metrics.confidence_distribution[i][2] = 0
          /\ metrics.support_distribution = <<>>
          /\ metrics.predicate_distribution = <<>>
    /\ (Called(report) /\ fused = <<>>) =>
          /\ report.status = "ConflictReport"
          /\ report.total_conflicts = 0
          /\ report.conflicting_subjects = <<>>
          /\ report.resolved_mappings = <<>>
    /\ (Called(comparison) /\ (fused = <<>> \/ reference = Some(<<>>))) =>
          /\ comparison.status = "dict"
          /\ comparison.precision = RInt(0)
          /\ comparison.recall = RInt(0)
          /\ comparison.f1_score = RInt(0)
          /\ comparison.true_positives = 0
    /\ (Called(agreement) /\ fused = <<>>) => agreement = DictResult(<<>>)
    /\ (Called(suggested) /\ fused = <<>>) => suggested = DictResult(<<>>)
    /\ (pc = "voted" /\ total_matchers = 0 /\ config.strategy \in Strategies) =>
          /\ result.status = "VotingResult"
          /\ result.total_matchers = 0

\* the metrics of an empty fused list, followed by resolve_conflicts on it
C20_Witness ==
    /\ pc = "called"
    /\ fused = <<>>
    /\ metrics.status = "QualityMetrics"
    /\ metrics.total_mappings = 0
    /\ report.status = "ConflictReport"
    /\ report.total_conflicts = 0

-----------------------------------------------------------------------------
(* Properties of the agreement and weight advisors *)

Suggested == pc = "called" /\ suggested.status = "dict"
Agreed == pc = "called" /\ agreement.status = "dict"
MatchersSeen == UNION {Range(x.supporting_matchers) : x \in FusedSet}
SupportedBy(m) == {x \in FusedSet : m \in Range(x.supporting_matchers)}

\* the sum of f over the set S
RECURSIVE RSum(_, _)
RSum(f, S) ==
    IF S = {} THEN RInt(0)
    ELSE LET k == CHOOSE k \in S : TRUE IN RAdd(f[k], RSum(f, S \ {k}))

\* |both support| / |either supports|
AgreementOf(a, b) ==
    R(Cardinality(SupportedBy(a) \cap SupportedBy(b)),
      Cardinality(SupportedBy(a) \cup SupportedBy(b)))

\* the raw scores: the precision against the reference keys, and the mean of
\* the agreements with the other matchers
PrecisionScores ==
    [m \in MatchersSeen |->
        LET keys == {get_key(x) : x \in SupportedBy(m)}
        IN  R(Cardinality(keys \cap RefKeys), Cardinality(keys))]
AgreementScores ==
    [m \in MatchersSeen |->
        LET others == MatchersSeen \ {m}
        IN  IF others = {} THEN RInt(0)
            ELSE RDiv(RSum([o \in others |-> AgreementOf(m, o)], others),
                      RInt(Cardinality(others)))]

\* raw / sum of raw, or 1/N when the sum is 0
Normalised(raw) ==
    LET total == RSum(raw, MatchersSeen)
    IN  [m \in MatchersSeen |->
            IF RGt(total, RInt(0)) THEN RDiv(raw[m], total)
            ELSE R(1, Cardinality(MatchersSeen))]

WeightsAre(raw) ==
    \A i \in 1..Len(suggested.items) :
        suggested.items[i][2] = Normalised(raw)[suggested.items[i][1]]

\* C21: for a fused list that is not empty the suggested weights have exactly
\* the matchers seen as keys, are >= 0 and sum to 1; each is raw / sum of raw
\* when some raw score is positive and 1/N otherwise.
C21_WeightsNormalised ==
    (Suggested /\ fused # <<>>) =>
        /\ Range(DictKeys(suggested.items)) = MatchersSeen
        /\ Len(suggested.items) = Cardinality(MatchersSeen)
        /\ \A i \in 1..Len(suggested.items) : RGe(suggested.items[i][2], RInt(0))
        /\ SumSeq(DictValues(suggested.items)) = RInt(1)
        /\ WeightsAre(PrecisionScores) \/ WeightsAre(AgreementScores)

\* three matchers with unequal weights
C21_Witness ==
    /\ Suggested
    /\ Cardinality(MatchersSeen) = 3
    /\ Cardinality(Range(DictValues(suggested.items))) >= 2
    /\ \E i \in 1..Len(suggested.items) : suggested.items[i][2] = RInt(0)

\* C22: with a reference supplied, an empty one included, the raw score of a
\* matcher is its precision; the mean pairwise agreement is the raw score only
\* when no reference is supplied.
C22_PrecisionWhenReference ==
    (Suggested /\ fused # <<>>) =>
        IF reference # None THEN WeightsAre(PrecisionScores)
        ELSE WeightsAre(AgreementScores)

\* C23: the agreement dict has one entry for every unordered pair of distinct
\* matchers seen, and no other; the score is |both| / |either|, lies in [0, 1]
\* and is 1 iff the two matchers support the same records.
C23_PairwiseAgreement ==
    Agreed =>
        LET items == agreement.items
        IN  /\ \A a, b \in MatchersSeen :
                  a # b => Cardinality({i \in 1..Len(items) :
                                           {items[i][1][1], items[i][1][2]} = {a, b}}) = 1
            /\ \A i \in 1..Len(items) :
                  LET a == items[i][1][1]
                      b == items[i][1][2]
                  IN  /\ a # b
                      /\ {a, b} \subseteq MatchersSeen
                      /\ items[i][2] = AgreementOf(a, b)
                      /\ RGe(items[i][2], RInt(0))
                      /\ RGe(RInt(1), items[i][2])
                      /\ items[i][2] = RInt(1) <=> SupportedBy(a) = SupportedBy(b)

\* three matchers: a pair that supports the same single record while another
\* record has neither of the two, and a pair with no record in common
C23_Witness ==
    /\ Agreed
    /\ Len(agreement.items) = 3
    /\ \E i \in 1..Len(agreement.items) :
          /\ agreement.items[i][2] = RInt(1)
          /\ Cardinality(SupportedBy(agreement.items[i][1][1])
                         \cup SupportedBy(agreement.items[i][1][2])) < Len(fused)
    /\ \E i \in 1..Len(agreement.items) : agreement.items[i][2] = RInt(0)

-----------------------------------------------------------------------------
(* Properties of the confidence histogram *)

\* the bin of a confidence: 1..5, or 0 outside [0, 1]
BinOf(c) ==
    IF RGt(RInt(0), c) \/ RGt(c, RInt(1)) THEN 0
    ELSE IF c = RInt(1) THEN 5
    ELSE IntOf(RMul(RInt(5), c)) + 1

BinNames == <<"0.0-0.2", "0.2-0.4", "0.4-0.6", "0.6-0.8", "0.8-1.0">>

\* C24: for a fused list that is not empty the histogram has the five bins, a
\* record with confidence in [0, 1] is counted in the bin with lo <= c < hi
\* (1.0 in the last one), and the counts sum to the number of those records.
C24_Histogram ==
    (Called(metrics) /\ fused # <<>>) =>
        LET dist == metrics.confidence_distribution
        IN  /\ DictKeys(dist) = BinNames
            /\ \A b \in 1..5 :
                  dist[b][2] =
                      Cardinality({i \in 1..Len(fused) :
                                      BinOf(fused[i].consensus_confidence) = b})
            /\ SumSeq([b \in 1..5 |-> RInt(dist[b][2])]) =
                   RInt(Cardinality({i \in 1..Len(fused) :
                                        BinOf(fused[i].consensus_confidence) # 0}))

\* a record on the boundary 0.2, one at 1.0 and one above 1.0
C24_Witness ==
    /\ Called(metrics)
    /\ Len(fused) = 3
    /\ \E i \in 1..3 : fused[i].consensus_confidence = R(1, 5)
    /\ \E i \in 1..3 : fused[i].consensus_confidence = RInt(1)
    /\ \E i \in 1..3 : fused[i].consensus_confidence = R(3, 2)
    /\ DictValues(metrics.confidence_distribution) = <<0, 1, 0, 0, 1>>

-----------------------------------------------------------------------------
(* Properties of the justification *)

\* the non-empty justifications among the raw records of the key of x
JustificationsOf(x) ==
    {m.mapping_justification[1] :
        m \in {k \in RawSet : get_key(k) = get_key(x) /\ Truthy(k.mapping_justification)}}

\* the lists that hold every element of S once
ListsOf(S) ==
    {q \in [1..Cardinality(S) -> S] : \A i, j \in 1..Cardinality(S) : q[i] = q[j] => i = j}

\* C25: the justification of a fused record is absent when no raw record of
\* its group has a non-empty one, otherwise the "; "-join of the distinct
\* non-empty justifications of the group, each once.
C25_DistinctJustifications ==
    pc = "fused" =>
        \A x \in FusedSet :
            IF JustificationsOf(x) = {}
            THEN x.mapping_justification = None
            ELSE \E q \in ListsOf(JustificationsOf(x)) :
                    x.mapping_justification = Some(Join("; ", q))

-----------------------------------------------------------------------------
(* Properties of the synthesized weights *)

WeightedStrategies == {"weighted", "confidence_weighted"}

\* matcher_0 ... matcher_{n-1}
PlaceholderNames(n) == {"matcher_" \o ToString(i) : i \in 0..(n - 1)}

\* a call of vote under a weighted strategy with matcher_weights absent or
\* empty uses the weights 1/total_matchers of the placeholder names, and every
\* record of scope without a supporter of a placeholder name is accepted iff
\* min_support_ratio <= 0
PlaceholderCall(scope) ==
    (pc' = "voted" /\ config.strategy \in WeightedStrategies /\ NoWeights(config)) =>
        /\ result'.status = "VotingResult"
        /\ Len(config'.matcher_weights[1]) = total_matchers'
        /\ Range(DictKeys(config'.matcher_weights[1])) = PlaceholderNames(total_matchers')
        /\ \A i \in 1..total_matchers' :
              config'.matcher_weights[1][i][2] = R(1, total_matchers')
        /\ \A x \in scope :
              Range(x.supporting_matchers) \cap PlaceholderNames(total_matchers') = {} =>
                  (x \in Range(result'.accepted_mappings) <=>
                       RGe(RInt(0), config.min_support_ratio))

\* C27 as stated: every fused record without a supporter of a placeholder name
\* is accepted iff min_support_ratio <= 0.
C27_PlaceholderAnyRecord == [][PlaceholderCall(FusedSet)]_vars

\* C27: with matcher_weights absent or empty the weights used are
\* 1/total_matchers for matcher_0 ... matcher_{total_matchers-1} only, and a
\* record that passes the min_confidence pre-filter and has no supporter of a
\* placeholder name is accepted iff min_support_ratio <= 0.
C27_PlaceholderPreFiltered ==
    [][PlaceholderCall({x \in FusedSet :
                           \/ ~RGt(config.min_confidence, RInt(0))
                           \/ RGe(x.consensus_confidence, config.min_confidence)})]_vars

\* a record backed by A and B is rejected under weights for matcher_0, matcher_1
C27_Witness ==
    /\ Voted
    /\ config.strategy = "weighted"
    /\ total_matchers = 2
    /\ config.matcher_weights = Some(default_weights(2))
    /\ RGt(config.min_support_ratio, RInt(0))
    /\ \E x \in Rejected : Range(x.supporting_matchers) = {"A", "B"}
    /\ \E x \in Accepted : "matcher_0" \in Range(x.supporting_matchers)

\* the config as its constructor left it: weights that vote stored are removed
AsConstructed(cfg) ==
    IF \E n \in 1..(MaxTotalMatchers + 1) : cfg.matcher_weights = Some(default_weights(n))
    THEN [cfg EXCEPT !.matcher_weights = None]
    ELSE cfg

\* C28: a call of vote on a config object used by earlier calls returns what a
\* call with a freshly constructed identical config and the same total_matchers
\* returns.
C28_NoLeftoverWeights ==
    [][(pc' = "voted" /\ config.strategy \in WeightedStrategies) =>
           result' = vote(fused, AsConstructed(config), total_matchers').result]_vars

-----------------------------------------------------------------------------
(* Properties of a second resolution *)

\* C29: under every strategy but keep_all no subject of the resolved list has
\* two distinct object_ids, identify_conflicts finds nothing in it, and
\* resolving it again returns the same records.
C29_ResolvedIsConflictFree ==
    (Resolved /\ resolution_strategy # "keep_all") =>
        /\ \A i, j \in 1..Len(ResolvedSeq) :
              ResolvedSeq[i].subject_id = ResolvedSeq[j].subject_id =>
                  ResolvedSeq[i].object_id = ResolvedSeq[j].object_id
        /\ identify_conflicts(ResolvedSeq) = <<>>
        /\ LET again == resolve_conflicts(ResolvedSeq, resolution_strategy)
           IN  /\ again.resolved_mappings = ResolvedSeq
               /\ again.total_conflicts = 0

\* both subjects conflict, one of them with three records
C29_Witness ==
    /\ Resolved
    /\ resolution_strategy = "specificity"
    /\ report.total_conflicts = 2
    /\ Len(fused) >= 5
    /\ Len(ResolvedSeq) = 2

-----------------------------------------------------------------------------
(* Concurrent callers: threads that share the fused list, each in one call.  *)
(* A thread switch can fall between any two statements of vote, so vote is   *)
(* taken in the steps that read or write its config object. The calls of     *)
(* quality.py read the shared list and write only their own locals, so each  *)
(* is one step.                                                              *)

MaxCallers == 2

Callers == 1..MaxCallers

\* the config argument of caller p's vote call: the object p constructed
config_Shared(p) == 1

config_of(p) == p

ConcurrentFiles ==
    {f \in VoteFiles : /\ Len(f[1].mappings) = 2
                       /\ Len(f[2].mappings) = 1
                       /\ Len(f[3].mappings) = 1}

ConcurrentConfigs ==
    {VotingConfig(s, 2, msr, minc, None) :
        s \in {"majority", "weighted", "confidence_weighted"},
        msr \in {R(1, 2)}, minc \in {RInt(0)}}

\* the total_matchers arguments of the callers' vote calls
ConcurrentTotals == {1, 2}

ConcurrentStrategies == {"confidence", "keep_all"}

NoCall == [op |-> "none", pc |-> "idle", result |-> NoResult]

InitConcurrent ==
    /\ files \in ConcurrentFiles
    /\ min_confidence = RInt(0)
    /\ fused = fuse_mappings(files, RInt(0))
    /\ config = NoConfig
    /\ total_matchers = 0
    /\ result = NoResult
    /\ pc = "fused"
    /\ QualityIdle
    /\ configs \in [Callers -> ConcurrentConfigs]
    /\ calls = [p \in Callers |-> NoCall]
    /\ manifest = None
    /\ checkpoint = None
    /\ checkpoint_file = None
    /\ at = "idle"
    /\ locals = None
    /\ outcome = "none"
    /\ runs = 0

\* vote is entered: the log line, then the pre-filter on config.min_confidence
VoteEnter(p) ==
    /\ calls[p].pc = "idle"
    /\ \E tm \in ConcurrentTotals :
          calls' = [calls EXCEPT ![p] =
                       [op |-> "vote", pc |-> "filtered", total_matchers |-> tm,
                        fused_mappings |-> pre_filter(fused, configs[config_of(p)]),
                        result |-> NoResult]]
    /\ UNCHANGED <<configs, alignerVars, qualityVars, pipelineVars>>

\* if not config.matcher_weights: config.matcher_weights = {...}
VoteSynthesize(p) ==
    /\ calls[p].pc = "filtered"
    /\ configs' = [configs EXCEPT ![config_of(p)] =
                      config_after(configs[config_of(p)], calls[p].total_matchers)]
    /\ calls' = [calls EXCEPT ![p].pc = "weighted"]
    /\ UNCHANGED <<alignerVars, qualityVars, pipelineVars>>

\* apply_*_voting on the weights the config holds now, and the VotingResult
VoteApply(p) ==
    /\ calls[p].pc = "weighted"
    /\ LET cfg == configs[config_of(p)]
           accepted == accepted_by(calls[p].fused_mappings, cfg, calls[p].total_matchers)
       IN  calls' = [calls EXCEPT ![p].pc = "done",
                        ![p].result =
                            [status |-> "VotingResult",
                             accepted_mappings |-> accepted,
                             rejected_mappings |->
                                 rejected_of(calls[p].fused_mappings, accepted),
                             total_matchers |-> calls[p].total_matchers,
                             voting_strategy |-> cfg.strategy]]
    /\ UNCHANGED <<configs, alignerVars, qualityVars, pipelineVars>>

\* resolve_conflicts(fused, strategy) by caller p
ResolveBy(p) ==
    /\ calls[p].pc = "idle"
    /\ \E s \in ConcurrentStrategies :
          calls' = [calls EXCEPT ![p] =
                       [op |-> "resolve", pc |-> "done", strategy |-> s,
                        result |-> resolve_conflicts(fused, s)]]
    /\ UNCHANGED <<configs, alignerVars, qualityVars, pipelineVars>>

\* calculate_quality_metrics(fused) by caller p
AnalyzeBy(p) ==
    /\ calls[p].pc = "idle"
    /\ calls' = [calls EXCEPT ![p] =
                    [op |-> "analyze", pc |-> "done",
                     result |-> calculate_quality_metrics(fused)]]
    /\ UNCHANGED <<configs, alignerVars, qualityVars, pipelineVars>>

\* compare_with_reference(fused, fused) by caller p
CompareBy(p) ==
    /\ calls[p].pc = "idle"
    /\ calls' = [calls EXCEPT ![p] =
                    [op |-> "compare", pc |-> "done",
                     result |-> compare_with_reference(fused, fused)]]
    /\ UNCHANGED <<configs, alignerVars, qualityVars, pipelineVars>>

NextConcurrent ==
    \E p \in Callers :
        \/ VoteEnter(p)
        \/ VoteSynthesize(p)
        \/ VoteApply(p)
        \/ ResolveBy(p)
        \/ AnalyzeBy(p)
        \/ CompareBy(p)

SpecConcurrent == InitConcurrent /\ [][NextConcurrent]_vars

-----------------------------------------------------------------------------
(* Properties of concurrent calls *)

\* the result caller p's finished call returns when it runs with no other caller
AloneResult(p) ==
    CASE calls[p].op = "vote" ->
            vote(fused, [configs[p] EXCEPT !.matcher_weights = None],
                 calls[p].total_matchers).result
      [] calls[p].op = "resolve" -> resolve_conflicts(fused, calls[p].strategy)
      [] calls[p].op = "analyze" -> calculate_quality_metrics(fused)
      [] calls[p].op = "compare" -> compare_with_reference(fused, fused)

\* C26: with one VotingConfig per caller, in every interleaving of the callers'
\* vote, resolve, analyze and compare calls each finished call returns what it
\* returns running alone, the shared fused list is the list fuse_mappings
\* returned, and a config is written only through its own caller's vote.
C26_ConcurrentCallsIndependent ==
    /\ fused = fuse_mappings(files, RInt(0))
    /\ \A p \in Callers :
          /\ calls[p].pc = "done" => calls[p].result = AloneResult(p)
          /\ calls[p].op # "vote" => NoWeights(configs[p])
          /\ ~NoWeights(configs[p]) =>
                configs[p].matcher_weights =
                    Some(default_weights(calls[p].total_matchers))

\* two weighted votes with different total_matchers, one of them finished
\* while the other was between its pre-filter and its strategy
C26_Witness ==
    /\ calls[1].op = "vote" /\ calls[2].op = "vote"
    /\ calls[1].pc = "done" /\ calls[2].pc = "weighted"
    /\ configs[1].strategy = "weighted" /\ configs[2].strategy = "confidence_weighted"
    /\ calls[1].total_matchers # calls[2].total_matchers
    /\ calls[1].result.accepted_mappings # <<>>
    /\ calls[1].result.rejected_mappings # <<>>

-----------------------------------------------------------------------------
(* The pipeline driver (graph_mesh_orchestrator/pipeline.py, models.py,      *)
(* errors.py). A run is taken statement group by statement group, each up to *)
(* and including the save_checkpoint that closes it. serialize_meta_graph,   *)
(* build_meta_graph, fetch_source, run_ingest, run_alignment, fuse_graphs    *)
(* and PipelineCheckpoint.to_file either succeed or raise. A path is modelled*)
(* by whether it is set.                                                     *)

MaxSources == 2
MaxRuns == 2

\* manifest.sources, in manifest order
Sources == 1..MaxSources

PipelineStates ==
    {"pending", "validating", "fetching", "ingesting", "aligning", "fusing",
     "completed", "failed", "cancelled"}

\* SourceState(source_id=src.id)
SourceState == [fetched |-> FALSE, ingested |-> FALSE, aligned |-> FALSE, error |-> FALSE]

\* the PipelineCheckpoint orchestrate builds when it does not resume
NewCheckpoint ==
    [state |-> "pending", current_stage |-> "initialization",
     sources |-> [src \in Sources |-> SourceState],
     meta_ontology_path |-> FALSE, merged_graph_path |-> FALSE,
     error_message |-> FALSE]

can_resume(cp) == cp.state \notin {"completed", "cancelled"}

\* load_checkpoint(workdir), None when the file does not exist
load_checkpoint == checkpoint_file

\* errors.py: CheckpointError and the stage errors derive from PipelineError
IsPipelineError(e) == e \in {"PipelineError", "CheckpointError"}

\* the manifests of the runs: which sources are enabled, and whether a name
\* of manifest.matchers is in MATCHER_REGISTRY
Manifests == [enabled : SUBSET Sources, matchers : BOOLEAN]

NoLocals == [fetched |-> {}, converted |-> {}, mappings |-> {}, i |-> 1]

InitPipeline ==
    /\ files = <<>>
    /\ min_confidence = RInt(0)
    /\ fused = <<>>
    /\ config = NoConfig
    /\ total_matchers = 0
    /\ result = NoResult
    /\ pc = "input"
    /\ QualityIdle
    /\ configs = <<>>
    /\ calls = <<>>
    /\ manifest \in {Some(m) : m \in Manifests}
    /\ checkpoint = None
    /\ checkpoint_file = None
    /\ at = "idle"
    /\ locals = None
    /\ outcome = "none"
    /\ runs = 0

pipelineFrame == <<alignerVars, qualityVars, concurrentVars, manifest, runs>>

\* save_checkpoint(checkpoint, workdir) on the checkpoint cp, then the
\* statements that lead to position next; CheckpointError leads to the handler
\* a call raised inside the try block: control goes to the handler
Raise(cp, loc) ==
    /\ checkpoint' = Some(cp)
    /\ locals' = Some(loc)
    /\ at' = "except"
    /\ UNCHANGED <<checkpoint_file, outcome, pipelineFrame>>

\* save_checkpoint(checkpoint, workdir) wrote the checkpoint cp
Saved(cp, next, loc) ==
    /\ checkpoint' = Some(cp)
    /\ locals' = Some(loc)
    /\ checkpoint_file' = Some(cp)
    /\ at' = next
    /\ UNCHANGED <<outcome, pipelineFrame>>

\* save_checkpoint(checkpoint, workdir) on the checkpoint cp, then the
\* statements that lead to position next; CheckpointError leads to the handler
SaveThen(cp, next, loc) == Saved(cp, next, loc) \/ Raise(cp, loc)

\* no save: the statements that lead to position next
Goto(cp, next, loc) ==
    /\ checkpoint' = Some(cp)
    /\ locals' = Some(loc)
    /\ at' = next
    /\ UNCHANGED <<checkpoint_file, outcome, pipelineFrame>>

\* orchestrate(manifest_path, workdir, resume) up to the try block
Orchestrate ==
    /\ at \in {"idle", "returned", "raised"}
    /\ runs < MaxRuns
    /\ \E resume \in BOOLEAN :
          checkpoint' =
              IF resume /\ load_checkpoint # None /\ can_resume(load_checkpoint[1])
              THEN load_checkpoint
              ELSE Some(NewCheckpoint)
    /\ locals' = Some(NoLocals)
    /\ at' = "meta_ontology"
    /\ outcome' = "none"
    /\ runs' = runs + 1
    /\ UNCHANGED <<checkpoint_file, manifest, alignerVars, qualityVars, concurrentVars>>

\* Stage 1, first half: state VALIDATING and its save, or the stage skipped
MetaOntology ==
    /\ at = "meta_ontology"
    /\ IF ~checkpoint[1].meta_ontology_path
       THEN SaveThen([checkpoint[1] EXCEPT !.state = "validating",
                                           !.current_stage = "meta_ontology"],
                     "serialize_meta_graph", locals[1])
       ELSE Goto(checkpoint[1], "build_meta_graph", locals[1])

\* Stage 1, second half: serialize_meta_graph, the path and its save
SerializeMetaGraph ==
    /\ at = "serialize_meta_graph"
    /\ \/ Raise(checkpoint[1], locals[1])
       \/ SaveThen([checkpoint[1] EXCEPT !.meta_ontology_path = TRUE],
                   "build_meta_graph", locals[1])

\* meta_graph = build_meta_graph()
BuildMetaGraph ==
    /\ at = "build_meta_graph"
    /\ \/ Raise(checkpoint[1], locals[1])
       \/ Goto(checkpoint[1], "fetch_begin", locals[1])

\* Stage 2: state FETCHING and its save
FetchBegin ==
    /\ at = "fetch_begin"
    /\ SaveThen([checkpoint[1] EXCEPT !.state = "fetching", !.current_stage = "fetch"],
                "fetch", [locals[1] EXCEPT !.i = 1])

\* Stage 2, one pass of the loop over manifest.sources. fetch_source raises
\* FetchError only, which is no RecoverableError, so a failed fetch reaches
\* the handler of the run.
FetchSource ==
    /\ at = "fetch"
    /\ locals[1].i <= MaxSources
    /\ LET src == locals[1].i
           source_state == checkpoint[1].sources[src]
           loc == [locals[1] EXCEPT !.i = src + 1]
       IN  IF src \notin manifest[1].enabled
           THEN Goto(checkpoint[1], "fetch", loc)
           ELSE IF source_state.fetched
           THEN Goto(checkpoint[1], "fetch", [loc EXCEPT !.fetched = @ \cup {src}])
           ELSE \/ Raise(checkpoint[1], locals[1])
                \/ SaveThen([checkpoint[1] EXCEPT !.sources[src].fetched = TRUE],
                            "fetch", [loc EXCEPT !.fetched = @ \cup {src}])

\* Stage 3: state INGESTING and its save
IngestBegin ==
    /\ at = "fetch"
    /\ locals[1].i > MaxSources
    /\ SaveThen([checkpoint[1] EXCEPT !.state = "ingesting", !.current_stage = "ingest"],
                "ingest", locals[1])

\* Stage 3: the sources converted by an earlier run, run_ingest on the others
Ingest ==
    /\ at = "ingest"
    /\ LET candidates == manifest[1].enabled \cap locals[1].fetched
           already == {src \in candidates : checkpoint[1].sources[src].ingested}
           sources_to_convert == candidates \ already
           loc == [locals[1] EXCEPT !.converted = candidates]
       IN  IF sources_to_convert # {}
           THEN \/ Raise(checkpoint[1], [locals[1] EXCEPT !.converted = already])
                \/ SaveThen([checkpoint[1] EXCEPT !.sources =
                                [src \in Sources |->
                                    IF src \in sources_to_convert
                                    THEN [@[src] EXCEPT !.ingested = TRUE]
                                    ELSE @[src]]],
                            "alignment_begin", loc)
           ELSE Goto(checkpoint[1], "alignment_begin", loc)

\* Stage 4: state ALIGNING and its save
AlignBegin ==
    /\ at = "alignment_begin"
    /\ SaveThen([checkpoint[1] EXCEPT !.state = "aligning",
                                      !.current_stage = "alignment"],
                "alignment", [locals[1] EXCEPT !.i = 1])

\* Stage 4, one pass of the loop over manifest.sources. The inner handler
\* catches what run_alignment raises and what the save after it raises,
\* records source_state.error and saves again.
AlignSource ==
    /\ at = "alignment"
    /\ locals[1].i <= MaxSources
    /\ LET src == locals[1].i
           source_state == checkpoint[1].sources[src]
           loc == [locals[1] EXCEPT !.i = src + 1]
           aligned == [checkpoint[1] EXCEPT !.sources[src].aligned = TRUE]
       IN  IF src \notin manifest[1].enabled \/ src \notin locals[1].converted
           THEN Goto(checkpoint[1], "alignment", loc)
           ELSE IF source_state.aligned
           THEN Goto(checkpoint[1], "alignment", [loc EXCEPT !.mappings = @ \cup {src}])
           ELSE IF ~manifest[1].matchers
           THEN Goto(checkpoint[1], "alignment", loc)
           ELSE \/ SaveThen([checkpoint[1] EXCEPT !.sources[src].error = TRUE],
                            "alignment", loc)
                \/ Saved(aligned, "alignment", [loc EXCEPT !.mappings = @ \cup {src}])
                \/ SaveThen([aligned EXCEPT !.sources[src].error = TRUE],
                            "alignment", [loc EXCEPT !.mappings = @ \cup {src}])

\* Stage 5: state FUSING and its save
FusionBegin ==
    /\ at = "alignment"
    /\ locals[1].i > MaxSources
    /\ SaveThen([checkpoint[1] EXCEPT !.state = "fusing", !.current_stage = "fusion"],
                "fusion", locals[1])

\* Stage 5: fuse_graphs, state COMPLETED and its save, return PipelineArtifacts
Fusion ==
    /\ at = "fusion"
    /\ LET cp == [checkpoint[1] EXCEPT !.merged_graph_path = TRUE,
                                       !.state = "completed",
                                       !.current_stage = "completed"]
       IN  \/ Raise(checkpoint[1], locals[1])
           \/ Raise(cp, locals[1])
           \/ /\ checkpoint' = Some(cp)
              /\ checkpoint_file' = Some(cp)
              /\ at' = "returned"
              /\ outcome' = "PipelineArtifacts"
              /\ UNCHANGED <<locals, pipelineFrame>>

\* except Exception: state FAILED, error_message, save_checkpoint, and
\* raise PipelineError; the CheckpointError of this save leaves the function
PipelineFailed ==
    /\ at = "except"
    /\ LET cp == [checkpoint[1] EXCEPT !.state = "failed", !.error_message = TRUE]
       IN  /\ checkpoint' = Some(cp)
           /\ \/ /\ checkpoint_file' = Some(cp)
                 /\ outcome' = "PipelineError"
              \/ /\ checkpoint_file' = checkpoint_file
                 /\ outcome' = "CheckpointError"
    /\ at' = "raised"
    /\ UNCHANGED <<locals, pipelineFrame>>

NextPipeline ==
    \/ Orchestrate
    \/ MetaOntology
    \/ SerializeMetaGraph
    \/ BuildMetaGraph
    \/ FetchBegin
    \/ FetchSource
    \/ IngestBegin
    \/ Ingest
    \/ AlignBegin
    \/ AlignSource
    \/ FusionBegin
    \/ Fusion
    \/ PipelineFailed

SpecPipeline == InitPipeline /\ [][NextPipeline]_vars

-----------------------------------------------------------------------------
(* Properties of a pipeline run *)

Ended == at \in {"returned", "raised"}

\* C30: a run that returns has saved its checkpoint in state COMPLETED, and a
\* run that raises has saved its checkpoint in state FAILED with error_message
\* set and raises a PipelineError, whichever call raised.
C30_EndsTerminal ==
    /\ at = "returned" =>
          /\ outcome = "PipelineArtifacts"
          /\ checkpoint[1].state = "completed"
          /\ checkpoint_file = checkpoint
    /\ at = "raised" =>
          /\ IsPipelineError(outcome)
          /\ checkpoint_file # None
          /\ checkpoint_file[1].state = "failed"
          /\ checkpoint_file[1].error_message

====
